---- MODULE Spec2Model ----
(***************************************************************************)
(* Model of the light tool's entity and light assembly (light/entities.cc) *)
(* and of the BSP helpers it uses (common/bsputils.cc).                    *)
(*                                                                         *)
(* Strings are sequences of byte values (std::string, C strings), so that  *)
(* prefix tests, length limits, the high-bit "bold" escape and the text    *)
(* form of the entity lump are computed the way the code computes them.    *)
(***************************************************************************)
EXTENDS Integers, Sequences, FiniteSets, TLC

VARIABLES
    p_in,       \* entity-text case under test: [kind, es, toks]
    p_text,     \* the entity lump text (bsp->dentdata)
    p_out,      \* what EntData_Parse gave: [fatal, result]
    p_pc,       \* position of the parse/write driver
    lighttargetnames,   \* registry of switchable-light targetnames
    ls_call,    \* the last LightStyleForTargetname call made by the style
                \* driver: [name, before, ret, fatal]
    bsp,        \* the loaded map: entity lump and geometry lumps (read only)
    cfg,        \* global settings (command line, then worldspawn keys)
    entdicts,   \* std::vector<entdict_t> entdicts
    all_lights, \* std::vector<light_t> all_lights
    all_suns,   \* std::vector<sun_t> all_suns
    warned_once,       \* the static flag of CheckEntityFields
    final_lightcount,  \* the local of SetupLights, -1 before it is set
    log,        \* what logprint wrote, warnings and notices only
    fatal,      \* the message of Error(), "none" while the process lives
    trace,      \* history: the steps run so far, each with the number of
                \* lights its loop visited
    pc,         \* the step the light pipeline runs next
    q_bsp,      \* the BSP a spatial query or accessor is called on
    q_call,     \* the last such call: [fn, arg, outcome, value]
    b_in,       \* bounce pass input: [faces, texturecolors,
                \* bouncecolorscale, workers]
    next_work,  \* the counter behind GetThreadWork
    radlights_lock,     \* the worker that holds the mutex, 0 when free
    radlights,          \* std::vector<bouncelight_t> radlights
    radlightsByFacenum, \* std::map<int, std::vector<int>>
    w_pc,       \* each bounce worker's position
    w_face,     \* each worker's face index i
    w_light,    \* each worker's bouncelight_t l, while it is being added
    examined,   \* history: per face number, how many times it was examined
    sd_in,      \* the face GL_SubdivideSurface is called on: [verts,
                \* subdivide_size]
    sd_stack,   \* the SubdividePolygon calls still to be made, next first
    sd_cells,   \* the polygons surface lights are created on, in order
    sd_last,    \* history: the last SubdividePolygon call made
    sd_oob,     \* history: the buffer indexed out of range, "none" so far
    sd_pc       \* position of the subdivision: the function run next

parseVars == <<p_in, p_text, p_out, p_pc>>

styleVars == <<lighttargetnames, ls_call>>

pipeVars == <<bsp, cfg, entdicts, all_lights, all_suns, warned_once,
              final_lightcount, log, fatal, trace, pc>>

queryVars == <<q_bsp, q_call>>

bounceVars == <<b_in, next_work, radlights_lock, radlights,
                radlightsByFacenum, w_pc, w_face, w_light, examined>>

subdivVars == <<sd_in, sd_stack, sd_cells, sd_last, sd_oob, sd_pc>>

vars == <<p_in, p_text, p_out, p_pc, lighttargetnames, ls_call,
          bsp, cfg, entdicts, all_lights, all_suns, warned_once,
          final_lightcount, log, fatal, trace, pc,
         q_bsp, q_call, b_in, next_work, radlights_lock, radlights,
         radlightsByFacenum, w_pc, w_face, w_light, examined,
         sd_in, sd_stack, sd_cells, sd_last, sd_oob, sd_pc>>

(***************************************************************************)
(* Bytes and strings                                                       *)
(***************************************************************************)
CH_NL     == 10
CH_SPACE  == 32
CH_QUOTE  == 34
CH_BSLASH == 92
CH_LBRACE == 123
CH_RBRACE == 125

\* n copies of byte c
Rep(c, n) == [i \in 1..n |-> c]

\* s[i] of a C++ std::string, 0-based; s[size()] is the terminating NUL
\* v is evaluated once and Body applied to its value: the local variable of
\* an imperative function
With(v, Body(_)) == CHOOSE r \in { Body(x) : x \in {v} } : TRUE

CharAt(s, i) == IF i < Len(s) THEN s[i + 1] ELSE 0

RECURSIVE StrLess(_, _)
\* std::string operator< (bytewise lexicographic)
StrLess(a, b) ==
    IF Len(b) = 0 THEN FALSE
    ELSE IF Len(a) = 0 THEN TRUE
    ELSE IF a[1] # b[1] THEN a[1] < b[1]
    ELSE StrLess(Tail(a), Tail(b))

\* std::string::find(prefix) == 0
StartsWith(s, prefix) ==
    /\ Len(s) >= Len(prefix)
    /\ SubSeq(s, 1, Len(prefix)) = prefix

(***************************************************************************)
(* entdict_t: a map from key string to value string                        *)
(***************************************************************************)
EmptyDict == [k \in {} |-> <<>>]

DictSet(d, k, v) == [x \in (DOMAIN d) \cup {k} |-> IF x = k THEN v ELSE d[x]]

DictErase(d, k) == [x \in (DOMAIN d) \ {k} |-> d[x]]

\* the least key of a non-empty key set
MinKey(keys) == CHOOSE k \in keys : \A o \in keys \ {k} : StrLess(k, o)

RECURSIVE SortedKeys(_)
\* iteration order of the map (ascending keys)
SortedKeys(keys) ==
    IF keys = {} THEN <<>>
    ELSE LET k == MinKey(keys) IN <<k>> \o SortedKeys(keys \ {k})

EntDict_StringForKey(dict, key) ==
    IF key \in DOMAIN dict THEN dict[key] ELSE <<>>

(***************************************************************************)
(* EntData_Write                                                           *)
(***************************************************************************)
RECURSIVE WritePairs(_, _)
WritePairs(ent, keys) ==
    IF keys = <<>> THEN <<>>
    ELSE <<CH_QUOTE>> \o Head(keys) \o <<CH_QUOTE, CH_SPACE, CH_QUOTE>>
         \o ent[Head(keys)] \o <<CH_QUOTE, CH_NL>>
         \o WritePairs(ent, Tail(keys))

RECURSIVE WritePairs_Unquoted(_, _)
WritePairs_Unquoted(ent, keys) ==
    IF keys = <<>> THEN <<>>
    ELSE Head(keys) \o <<CH_SPACE>> \o ent[Head(keys)] \o <<CH_NL>>
         \o WritePairs_Unquoted(ent, Tail(keys))

RECURSIVE EntData_Write_Unquoted(_)
\* mutant: the pairs are written without the surrounding quotes
EntData_Write_Unquoted(ents) ==
    IF ents = <<>> THEN <<>>
    ELSE <<CH_LBRACE, CH_NL>>
         \o WritePairs_Unquoted(Head(ents), SortedKeys(DOMAIN Head(ents)))
         \o <<CH_RBRACE, CH_NL>>
         \o EntData_Write_Unquoted(Tail(ents))

RECURSIVE EntData_Write(_)
EntData_Write(ents) ==
    IF ents = <<>> THEN <<>>
    ELSE <<CH_LBRACE, CH_NL>>
         \o WritePairs(Head(ents), SortedKeys(DOMAIN Head(ents)))
         \o <<CH_RBRACE, CH_NL>>
         \o EntData_Write(Tail(ents))

(***************************************************************************)
(* COM_Parse: the tokenizer.  pos is the 1-based index of the next byte;   *)
(* the result is [ok, token, pos]; ok = FALSE is the NULL return at the    *)
(* end of the text.                                                        *)
(***************************************************************************)
IsSpace(c) == c <= CH_SPACE

IsBrace(c) == c = CH_LBRACE \/ c = CH_RBRACE

\* least index >= from whose byte satisfies the test, or Len+1
FirstNonSpace(data, from) ==
    LET hits == {i \in from..Len(data) : ~IsSpace(data[i])}
    IN  IF hits = {} THEN Len(data) + 1
        ELSE CHOOSE i \in hits : \A j \in hits : i <= j

FirstQuote(data, from) ==
    LET hits == {i \in from..Len(data) : data[i] = CH_QUOTE}
    IN  IF hits = {} THEN Len(data) + 1
        ELSE CHOOSE i \in hits : \A j \in hits : i <= j

FirstWordEnd(data, from) ==
    LET hits == {i \in from..Len(data) : IsSpace(data[i]) \/ IsBrace(data[i])}
    IN  IF hits = {} THEN Len(data) + 1
        ELSE CHOOSE i \in hits : \A j \in hits : i <= j

COM_Parse(data, pos) ==
    LET s == FirstNonSpace(data, pos) IN
    IF s > Len(data) THEN [ok |-> FALSE, token |-> <<>>, pos |-> s]
    ELSE IF data[s] = CH_QUOTE THEN
        LET q == FirstQuote(data, s + 1)
        IN  [ok |-> TRUE, token |-> SubSeq(data, s + 1, q - 1), pos |-> q + 1]
    ELSE IF IsBrace(data[s]) THEN
        [ok |-> TRUE, token |-> <<data[s]>>, pos |-> s + 1]
    ELSE
        LET e == FirstWordEnd(data, s + 1)
        IN  [ok |-> TRUE, token |-> SubSeq(data, s, e - 1), pos |-> e]

(***************************************************************************)
(* EntData_Parse                                                           *)
(***************************************************************************)
MAX_ENT_KEY   == 32
MAX_ENT_VALUE == 1024

ParseFatal(msg) == [fatal |-> msg, entity |-> EmptyDict, pos |-> 0]

RECURSIVE ParseEntityKeys_NoKeyLimit(_, _, _)
\* mutant: the key length check is missing
ParseEntityKeys_NoKeyLimit(data, pos, entity) ==
    With(COM_Parse(data, pos), LAMBDA k :
    IF ~k.ok THEN ParseFatal("EOF without closing brace")
    ELSE IF k.token = <<CH_RBRACE>> THEN
        [fatal |-> "none", entity |-> entity, pos |-> k.pos]
    ELSE
        With(COM_Parse(data, k.pos), LAMBDA v :
        IF ~v.ok THEN ParseFatal("EOF without closing brace")
        ELSE IF CharAt(v.token, 0) = CH_RBRACE THEN
            ParseFatal("closing brace without data")
        ELSE IF Len(v.token) > MAX_ENT_VALUE - 1 THEN ParseFatal("Value length")
        ELSE With(DictSet(entity, k.token, v.token), LAMBDA entity1 :
                  ParseEntityKeys_NoKeyLimit(data, v.pos, entity1))))

RECURSIVE ParseEntityKeys(_, _, _)
\* the inner while(1): key/value pairs up to the closing brace
ParseEntityKeys(data, pos, entity) ==
    With(COM_Parse(data, pos), LAMBDA k :
    IF ~k.ok THEN ParseFatal("EOF without closing brace")
    ELSE IF k.token = <<CH_RBRACE>> THEN
        [fatal |-> "none", entity |-> entity, pos |-> k.pos]
    ELSE IF Len(k.token) > MAX_ENT_KEY - 1 THEN ParseFatal("Key length")
    ELSE
        With(COM_Parse(data, k.pos), LAMBDA v :
        IF ~v.ok THEN ParseFatal("EOF without closing brace")
        ELSE IF CharAt(v.token, 0) = CH_RBRACE THEN
            ParseFatal("closing brace without data")
        ELSE IF Len(v.token) > MAX_ENT_VALUE - 1 THEN ParseFatal("Value length")
        ELSE With(DictSet(entity, k.token, v.token), LAMBDA entity1 :
                  ParseEntityKeys(data, v.pos, entity1))))

RECURSIVE ParseEntities(_, _, _)
\* the outer while(1): one entity per opening brace
ParseEntities(data, pos, result) ==
    With(COM_Parse(data, pos), LAMBDA t :
    IF ~t.ok THEN [fatal |-> "none", result |-> result]
    ELSE IF CharAt(t.token, 0) # CH_LBRACE THEN
        [fatal |-> "found token when expecting {", result |-> <<>>]
    ELSE
        With(ParseEntityKeys(data, t.pos, EmptyDict), LAMBDA e :
        IF e.fatal # "none" THEN [fatal |-> e.fatal, result |-> <<>>]
        ELSE With(Append(result, e.entity), LAMBDA result1 :
                  ParseEntities(data, e.pos, result1))))

EntData_Parse(entdata) == ParseEntities(entdata, 1, <<>>)

(***************************************************************************)
(* Numbers.  Coordinates and angles are fixed-point, in tenths of a unit;  *)
(* light intensities are exact fractions [n, d], so that dividing by the   *)
(* sample count loses nothing.                                             *)
(***************************************************************************)
Fixed(units) == 10 * units

Abs(x) == IF x < 0 THEN -x ELSE x

\* C conversion of a fixed-point value to int: truncation toward zero
TruncToInt(t) == IF t >= 0 THEN t \div 10 ELSE -((-t) \div 10)

RECURSIVE GCD(_, _)
GCD(a, b) == IF b = 0 THEN a ELSE With(a % b, LAMBDA r : GCD(b, r))

Rat(n, d) ==
    IF n = 0 THEN [n |-> 0, d |-> 1]
    ELSE With([g |-> GCD(Abs(n), Abs(d)), sgn |-> IF d < 0 THEN -1 ELSE 1],
              LAMBDA c : [n |-> c.sgn * (n \div c.g), d |-> c.sgn * (d \div c.g)])

RatOfFixed(t) == Rat(t, 10)

RatDivInt(r, k) == Rat(r.n, r.d * k)

RatAdd(a, b) == Rat(a.n * b.d + b.n * a.d, a.d * b.d)

RatLess(a, b) == a.n * b.d < b.n * a.d

RatZero == [n |-> 0, d |-> 1]

RatOne == [n |-> 1, d |-> 1]

VecAdd(a, b) == <<a[1] + b[1], a[2] + b[2], a[3] + b[3]>>

VecSub(a, b) == <<a[1] - b[1], a[2] - b[2], a[3] - b[3]>>

VecScale(a, k) == <<a[1] * k, a[2] * k, a[3] * k>>

IsDigit(c) == c >= 48 /\ c <= 57

\* least index >= from that holds no digit, or Len+1
DigitsEnd(s, from) ==
    LET hits == {i \in from..Len(s) : ~IsDigit(s[i])}
    IN  IF hits = {} THEN Len(s) + 1
        ELSE CHOOSE i \in hits : \A j \in hits : i <= j

RECURSIVE DigitsValue(_, _, _, _)
DigitsValue(s, from, to, acc) ==
    IF from >= to THEN acc
    ELSE With(10 * acc + (s[from] - 48), LAMBDA acc1 :
              DigitsValue(s, from + 1, to, acc1))

\* the number whose sign is at b (or absent), digits at d0..d1-1 and
\* fraction digits at d1+1..f1-1
NumberAt(s, from, neg, d0, d1, hasFrac, f1) ==
    IF d1 = d0 /\ ~(hasFrac /\ f1 > d1 + 1)
    THEN [ok |-> FALSE, val |-> 0, next |-> from]
    ELSE With(10 * DigitsValue(s, d0, d1, 0)
                 + (IF hasFrac /\ f1 > d1 + 1 THEN s[d1 + 1] - 48 ELSE 0),
              LAMBDA mag :
              [ok |-> TRUE, val |-> IF neg THEN -mag ELSE mag, next |-> f1])

\* strtof/stof/atof/%f on the text from index `from`: leading whitespace, an
\* optional sign, digits, an optional fraction (kept to one decimal).
\* [ok, val, next]: ok = FALSE when no number starts there; val in tenths.
ScanNumber(s, from) ==
    With(FirstNonSpace(s, from), LAMBDA b :
    With(IF b <= Len(s) /\ s[b] \in {43, 45} THEN b + 1 ELSE b, LAMBDA d0 :
    With(DigitsEnd(s, d0), LAMBDA d1 :
    With(d1 <= Len(s) /\ s[d1] = 46, LAMBDA hasFrac :
    With(IF hasFrac THEN DigitsEnd(s, d1 + 1) ELSE d1, LAMBDA f1 :
         NumberAt(s, from, b <= Len(s) /\ s[b] = 45, d0, d1, hasFrac, f1))))))

\* atof, and std::stof with its exception caught: 0 when nothing parses
NumberOf(s) == ScanNumber(s, 1).val

RECURSIVE IntToStr(_)
\* std::to_string of a non-negative int
IntToStr(n) ==
    IF n < 10 THEN <<48 + n>>
    ELSE IntToStr(n \div 10) \o <<48 + (n % 10)>>

\* a vec3 from text; garbage is what the destination held before
\* sscanf("%f %f %f") stores only the components it converts
ScanVec3(s, garbage) ==
    With(ScanNumber(s, 1), LAMBDA a :
    With(IF a.ok THEN ScanNumber(s, a.next) ELSE a, LAMBDA b :
    With(IF b.ok THEN ScanNumber(s, b.next) ELSE b, LAMBDA c :
         << IF a.ok THEN a.val ELSE garbage[1],
            IF b.ok THEN b.val ELSE garbage[2],
            IF c.ok THEN c.val ELSE garbage[3] >>)))

\* the settings binder's vec3: a triple, or one scalar for all components
BindVec3(s) ==
    With(ScanNumber(s, 1), LAMBDA a :
    With(IF a.ok THEN ScanNumber(s, a.next) ELSE a, LAMBDA b :
         IF a.ok /\ ~b.ok THEN <<a.val, a.val, a.val>>
         ELSE ScanVec3(s, <<0, 0, 0>>)))

ToLower(c) == IF c >= 65 /\ c <= 90 THEN c + 32 ELSE c

\* Q_strcasecmp(a, b) == 0
StrCaseEq(a, b) ==
    /\ Len(a) = Len(b)
    /\ \A i \in 1..Len(a) : ToLower(a[i]) = ToLower(b[i])

(***************************************************************************)
(* Key and class names                                                     *)
(***************************************************************************)
K == [
    classname |-> <<99, 108, 97, 115, 115, 110, 97, 109, 101>>,
    worldspawn |-> <<119, 111, 114, 108, 100, 115, 112, 97, 119, 110>>,
    light |-> <<108, 105, 103, 104, 116>>,
    targetname |-> <<116, 97, 114, 103, 101, 116, 110, 97, 109, 101>>,
    target |-> <<116, 97, 114, 103, 101, 116>>,
    style |-> <<115, 116, 121, 108, 101>>,
    origin |-> <<111, 114, 105, 103, 105, 110>>,
    lightmap_scale |-> <<108, 105, 103, 104, 116, 109, 97, 112, 95, 115, 99, 97, 108, 101>>,
    x_lightmap_scale |-> <<95, 108, 105, 103, 104, 116, 109, 97, 112, 95, 115, 99, 97, 108, 101>>,
    x_surface |-> <<95, 115, 117, 114, 102, 97, 99, 101>>,
    x_surface_offset |-> <<95, 115, 117, 114, 102, 97, 99, 101, 95, 111, 102, 102, 115, 101, 116>>,
    x_surface_spotlight |-> <<95, 115, 117, 114, 102, 97, 99, 101, 95, 115, 112, 111, 116, 108, 105, 103, 104, 116>>,
    x_samples |-> <<95, 115, 97, 109, 112, 108, 101, 115>>,
    x_deviance |-> <<95, 100, 101, 118, 105, 97, 110, 99, 101>>,
    delay |-> <<100, 101, 108, 97, 121>>,
    wait |-> <<119, 97, 105, 116>>,
    angle |-> <<97, 110, 103, 108, 101>>,
    x_softangle |-> <<95, 115, 111, 102, 116, 97, 110, 103, 108, 101>>,
    mangle |-> <<109, 97, 110, 103, 108, 101>>,
    x_light |-> <<95, 108, 105, 103, 104, 116>>,
    x_sunlight |-> <<95, 115, 117, 110, 108, 105, 103, 104, 116>>,
    x_sunlight2 |-> <<95, 115, 117, 110, 108, 105, 103, 104, 116, 50>>,
    x_sunlight3 |-> <<95, 115, 117, 110, 108, 105, 103, 104, 116, 51>>,
    x_sunlight_penumbra |-> <<95, 115, 117, 110, 108, 105, 103, 104, 116, 95, 112, 101, 110, 117, 109, 98, 114, 97>>,
    info_null |-> <<105, 110, 102, 111, 95, 110, 117, 108, 108>>]

(***************************************************************************)
(* ParseEscapeSequences                                                    *)
(***************************************************************************)
SetHighBit(c) == IF c < 128 THEN c + 128 ELSE c

RECURSIVE EscapeFrom(_, _, _)
\* the loop from 0-based index i on, with the bold flag as it stands
EscapeFrom(input, i, bold) ==
    IF i >= Len(input) THEN <<>>
    ELSE IF CharAt(input, i) = CH_BSLASH /\ i + 1 < Len(input)
            /\ CharAt(input, i + 1) = 98
    THEN EscapeFrom(input, i + 2, ~bold)
    ELSE <<(IF bold THEN SetHighBit(CharAt(input, i)) ELSE CharAt(input, i))>>
         \o EscapeFrom(input, i + 1, bold)

ParseEscapeSequences(input) == EscapeFrom(input, 0, FALSE)

(***************************************************************************)
(* Light-style registry                                                    *)
(***************************************************************************)
MAX_LIGHT_TARGETS == 32

\* index (0-based) of the first entry equal to name, or -1
IndexOfName(names, name) ==
    LET hits == {i \in 1..Len(names) : names[i] = name}
    IN  IF hits = {} THEN -1
        ELSE (CHOOSE i \in hits : \A j \in hits : i <= j) - 1

\* mutant: the capacity test is off by one
LightStyleForTargetname_CapOffByOne(names, targetname) ==
    LET i == IndexOfName(names, targetname) IN
    IF i >= 0 THEN [fatal |-> "none", style |-> 32 + i, names |-> names]
    ELSE IF Len(names) = MAX_LIGHT_TARGETS + 1 THEN
        [fatal |-> "Too many unique light targetnames", style |-> 0,
         names |-> names]
    ELSE [fatal |-> "none", style |-> Len(names) + 1 - 1 + 32,
          names |-> Append(names, targetname)]

\* result: [fatal, style, names]; names is the registry after the call
LightStyleForTargetname(names, targetname) ==
    LET i == IndexOfName(names, targetname) IN
    IF i >= 0 THEN [fatal |-> "none", style |-> 32 + i, names |-> names]
    ELSE IF Len(names) = MAX_LIGHT_TARGETS THEN
        [fatal |-> "Too many unique light targetnames", style |-> 0,
         names |-> names]
    ELSE [fatal |-> "none", style |-> Len(names) + 1 - 1 + 32,
          names |-> Append(names, targetname)]

(***************************************************************************)
(* Global settings                                                         *)
(***************************************************************************)
\* the settings as they stand before the command line and worldspawn are
\* applied
DefaultCfg ==
    [ nolights |-> FALSE,
      addminlight |-> FALSE,
      global_anglescale |-> Rat(1, 2),
      globalDirt |-> FALSE,
      surflight_subdivide |-> Fixed(128),
      sunsamples |-> 64,
      sunlight |-> RatZero,
      sunlight_color |-> <<255, 255, 255>>,
      sunlight_dirt |-> 0,
      sunvec |-> [kind |-> "sunvec", ring |-> 0, step |-> 0, z |-> -1],
      sun_deviance |-> 0,
      sun2 |-> RatZero,
      sun2_color |-> <<255, 255, 255>>,
      sun2vec |-> [kind |-> "sun2vec", ring |-> 0, step |-> 0, z |-> -1],
      sunlight2 |-> RatZero,
      sunlight2_color |-> <<255, 255, 255>>,
      sunlight3 |-> RatZero,
      sunlight3_color |-> <<255, 255, 255>>,
      sunlight2_dirt |-> 0 ]

\* a bsp without geometry
NoWorld ==
    [ dnodes |-> <<>>, dplanes |-> <<>>,
      dleafs |-> << [contents |-> -1, firstmarksurface |-> 0,
                     nummarksurfaces |-> 0] >>,
      dmarksurfaces |-> <<>>, dfaces |-> <<>>, dsurfedges |-> <<>>,
      dedges |-> <<>>, dvertexes |-> <<>>, texinfo |-> <<>>, dtex |-> <<>>,
      drgbatexdata |-> <<>>, modelinfo |-> <<>>, headnode |-> -1,
      game |-> "quake", mins |-> <<0, 0, 0>>, maxs |-> <<0, 0, 0>> ]

(***************************************************************************)
(* Lights: light_t with the settings the binder fills from the entity dict *)
(***************************************************************************)
DEFAULTLIGHTLEVEL == 300

LF == [LINEAR |-> 0, INVERSE |-> 1, INVERSE2 |-> 2, INFINITE |-> 3,
       LOCALMIN |-> 4, INVERSE2A |-> 5, COUNT |-> 6]

\* value of the first of the keys the dict carries, or dflt
BoundText(dict, key, dflt) == IF key \in DOMAIN dict THEN dict[key] ELSE dflt

\* light_t entity {}; entity.epairs = &entdict; setSettings(*entity.epairs).
\* epairs is the 1-based index of the dict in entdicts; targetent = 0 and
\* leaf = -1 are the null pointers.
NewLight(idx, dict) ==
    [ epairs     |-> idx,
      origin     |-> IF K.origin \in DOMAIN dict
                     THEN BindVec3(dict[K.origin]) ELSE <<0, 0, 0>>,
      light      |-> RatOfFixed(NumberOf(
                        BoundText(dict, K.light, BoundText(dict, K.x_light, <<>>)))),
      atten      |-> IF K.wait \in DOMAIN dict
                     THEN NumberOf(dict[K.wait]) ELSE Fixed(1),
      anglescale |-> Rat(-1, 1),
      formula    |-> TruncToInt(NumberOf(BoundText(dict, K.delay, <<>>))),
      style      |-> TruncToInt(NumberOf(BoundText(dict, K.style, <<>>))),
      samples    |-> TruncToInt(NumberOf(BoundText(dict, K.x_samples, <<>>))),
      deviance   |-> NumberOf(BoundText(dict, K.x_deviance, <<>>)),
      spotangle  |-> IF K.angle \in DOMAIN dict
                     THEN NumberOf(dict[K.angle]) ELSE Fixed(40),
      spotangle2 |-> NumberOf(BoundText(dict, K.x_softangle, <<>>)),
      mangle     |-> BindVec3(BoundText(dict, K.mangle, <<>>)),
      spotlight  |-> FALSE,
      spotvec    |-> [from |-> "none", v |-> <<0, 0, 0>>],
      spotfalloff  |-> [set |-> FALSE, angle |-> 0],
      spotfalloff2 |-> [set |-> FALSE, angle |-> 0],
      targetent  |-> 0,
      generated  |-> FALSE,
      leaf       |-> -1 ]

ResetsJitter_AtOneOnly(deviance, samples) == deviance <= 0 \/ samples = 1

\* the test that clears the jitter: deviance <= 0 or samples <= 1
ResetsJitter(deviance, samples) == deviance <= 0 \/ samples <= 1

DividesLight_Never(formula, gs) == FALSE

\* the formulas for which the light value is divided by the samples
DividesLight(formula, gs) ==
    \/ formula \in {LF.INVERSE, LF.INVERSE2, LF.INFINITE, LF.INVERSE2A}
    \/ (formula = LF.LOCALMIN /\ gs.addminlight)

\* result: [fatal, entity, warned_once, log]
CheckEntityFields(entity, gs, warned) ==
    LET light1 == IF entity.light = RatZero
                  THEN Rat(DEFAULTLIGHTLEVEL, 1) ELSE entity.light
        atten1 == IF entity.atten <= 0 THEN Fixed(1) ELSE entity.atten
        angsc1 == IF RatLess(entity.anglescale, RatZero)
                     \/ RatLess(RatOne, entity.anglescale)
                  THEN gs.global_anglescale ELSE entity.anglescale
        badFormula == entity.formula < LF.LINEAR \/ entity.formula >= LF.COUNT
        formula1 == IF badFormula THEN LF.LINEAR ELSE entity.formula
        samples0 == IF entity.deviance > 0 /\ entity.samples = 0
                    THEN 16 ELSE entity.samples
        reset == ResetsJitter(entity.deviance, samples0)
        deviance1 == IF reset THEN 0 ELSE entity.deviance
        samples1 == IF reset THEN 1 ELSE samples0
        divide == DividesLight(formula1, gs)
        light2 == IF divide THEN RatDivInt(light1, samples1) ELSE light1
    IN  [ fatal |-> IF entity.style < 0 \/ entity.style > 254
                    THEN "Bad light style" ELSE "none",
          entity |-> [entity EXCEPT !.light = light2, !.atten = atten1,
                                    !.anglescale = angsc1,
                                    !.formula = formula1,
                                    !.deviance = deviance1,
                                    !.samples = samples1],
          warned_once |-> IF badFormula THEN TRUE ELSE warned,
          log |-> IF badFormula /\ ~warned
                  THEN <<"WARNING: unknown formula number">> ELSE <<>> ]

(***************************************************************************)
(* LoadEntities                                                            *)
(***************************************************************************)
DecodeValues(dict) == [k \in DOMAIN dict |-> ParseEscapeSequences(dict[k])]

\* fix "lightmap_scale"
RenameLightmapScale(dict) ==
    LET lmscale == EntDict_StringForKey(dict, K.lightmap_scale) IN
    IF lmscale # <<>>
    THEN DictSet(DictErase(dict, K.lightmap_scale), K.x_lightmap_scale, lmscale)
    ELSE dict

\* mutant: a style is assigned to every light with a targetname
NeedsStyle_IgnoreExplicit(dict) ==
    /\ StartsWith(EntDict_StringForKey(dict, K.classname), K.light)
    /\ EntDict_StringForKey(dict, K.targetname) # <<>>

\* the test that guards the style assignment
NeedsStyle(dict) ==
    /\ StartsWith(EntDict_StringForKey(dict, K.classname), K.light)
    /\ EntDict_StringForKey(dict, K.targetname) # <<>>
    /\ TruncToInt(NumberOf(EntDict_StringForKey(dict, K.style))) = 0

\* one round of the first pass.  result: [fatal, dict, names, log]
FixupEntDict(d0, names, lg) ==
    With(RenameLightmapScale(d0), LAMBDA d1 :
    With(IF d1 # d0
         THEN Append(lg, "lightmap_scale should be _lightmap_scale") ELSE lg,
         LAMBDA lg1 :
    IF ~NeedsStyle(d1) THEN
        [fatal |-> "none", dict |-> DecodeValues(d1), names |-> names,
         log |-> lg1]
    ELSE
        With(LightStyleForTargetname(names,
                 EntDict_StringForKey(d1, K.targetname)), LAMBDA r :
        [fatal |-> r.fatal,
         dict |-> DecodeValues(DictSet(d1, K.style, IntToStr(r.style))),
         names |-> r.names, log |-> lg1])))

RECURSIVE FixupEntDicts(_, _, _, _)
\* the first pass over entdicts.  result: [fatal, dicts, names, log]
FixupEntDicts(dicts, i, names, lg) ==
    IF i > Len(dicts) THEN
        [fatal |-> "none", dicts |-> dicts, names |-> names, log |-> lg]
    ELSE
        With(FixupEntDict(dicts[i], names, lg), LAMBDA f :
        IF f.fatal # "none" THEN
            [fatal |-> f.fatal, dicts |-> dicts, names |-> names,
             log |-> f.log]
        ELSE With([dicts EXCEPT ![i] = f.dict], LAMBDA dicts1 :
                  FixupEntDicts(dicts1, i + 1, f.names, f.log)))

\* WorldEnt() succeeds
HasWorldEnt(dicts) ==
    /\ Len(dicts) > 0
    /\ EntDict_StringForKey(dicts[1], K.classname) = K.worldspawn

\* SetGlobalSetting for every pair of worldspawn
ApplyWorldspawn(gs, world) ==
    [gs EXCEPT
       !.sunlight = IF K.x_sunlight \in DOMAIN world
                    THEN RatOfFixed(NumberOf(world[K.x_sunlight])) ELSE @,
       !.sunlight2 = IF K.x_sunlight2 \in DOMAIN world
                     THEN RatOfFixed(NumberOf(world[K.x_sunlight2])) ELSE @,
       !.sunlight3 = IF K.x_sunlight3 \in DOMAIN world
                     THEN RatOfFixed(NumberOf(world[K.x_sunlight3])) ELSE @,
       !.sun_deviance = IF K.x_sunlight_penumbra \in DOMAIN world
                        THEN NumberOf(world[K.x_sunlight_penumbra]) ELSE @]

\* the light built for entdicts[idx], before CheckEntityFields
ConstructLight(idx, dict) ==
    LET e == NewLight(idx, dict) IN
    IF K.mangle \in DOMAIN dict
    THEN [e EXCEPT !.spotlight = TRUE,
                   !.spotvec = [from |-> "mangle", v |-> e.mangle]]
    ELSE e

RECURSIVE BuildLights(_, _, _, _, _, _)
\* the second pass.  result: [fatal, lights, warned_once, log]
BuildLights(dicts, i, gs, lights, warned, lg) ==
    IF i > Len(dicts) THEN
        [fatal |-> "none", lights |-> lights, warned_once |-> warned,
         log |-> lg]
    ELSE IF ~StartsWith(EntDict_StringForKey(dicts[i], K.classname), K.light)
    THEN BuildLights(dicts, i + 1, gs, lights, warned, lg)
    ELSE
        With(ConstructLight(i, dicts[i]), LAMBDA entity :
        With(CheckEntityFields(entity, gs, warned), LAMBDA c :
        IF c.fatal # "none" THEN
            [fatal |-> c.fatal, lights |-> lights,
             warned_once |-> c.warned_once, log |-> lg \o c.log]
        ELSE With([lights |-> Append(lights, c.entity), log |-> lg \o c.log],
                  LAMBDA n :
                  BuildLights(dicts, i + 1, gs, n.lights, c.warned_once,
                              n.log))))

LoadFailed(msg, gs, names, warned) ==
    [fatal |-> msg, entdicts |-> <<>>, names |-> names, cfg |-> gs,
     lights |-> <<>>, warned_once |-> warned, log |-> <<>>]

\* result: [fatal, entdicts, names, cfg, lights, warned_once, log]
LoadEntities(dentdata, gs, names, warned) ==
    With(EntData_Parse(dentdata), LAMBDA parsed :
    IF parsed.fatal # "none" THEN LoadFailed(parsed.fatal, gs, names, warned)
    ELSE
        With(FixupEntDicts(parsed.result, 1, names, <<>>), LAMBDA f :
        IF f.fatal # "none" THEN LoadFailed(f.fatal, gs, names, warned)
        ELSE IF ~HasWorldEnt(f.dicts) THEN
            LoadFailed("WorldEnt() failed to get worldspawn", gs, names, warned)
        ELSE
            With(ApplyWorldspawn(gs, f.dicts[1]), LAMBDA gs1 :
            With(IF gs1.nolights
                 THEN [fatal |-> "none", lights |-> <<>>,
                       warned_once |-> warned, log |-> f.log]
                 ELSE BuildLights(f.dicts, 1, gs1, <<>>, warned, f.log),
                 LAMBDA b :
            [fatal |-> b.fatal, entdicts |-> f.dicts, names |-> f.names,
             cfg |-> gs1, lights |-> b.lights,
             warned_once |-> b.warned_once, log |-> b.log]))))

(***************************************************************************)
(* Suns.  A direction is kept as where it comes from (the setting, a       *)
(* penumbra sample, a cell of the dome grid, the vertical) and the sign    *)
(* of its z component.                                                     *)
(***************************************************************************)
Dirt_ResolveFlag(dirtInt, gs) ==
    IF dirtInt = 1 THEN TRUE
    ELSE IF dirtInt = -1 THEN FALSE
    ELSE gs.globalDirt

\* the far point of the sun: the direction normalized and scaled by -16384
FarPoint(direction) == [direction EXCEPT !.z = -direction.z]

AddSun(suns, direction, light, color, dirtInt, gs) ==
    Append(suns, [ sunvec |-> FarPoint(direction),
                   sunlight |-> light,
                   sunlight_color |-> color,
                   anglescale |-> gs.global_anglescale,
                   dirt |-> Dirt_ResolveFlag(dirtInt, gs) ])

RECURSIVE SunSamples(_, _, _, _, _, _, _)
\* the loop of SetupSun from sample i on; a jittered sample keeps the z
\* sign of the input vector
SunSamples(suns, i, n, light, color, sunvec_in, gs) ==
    IF i >= n THEN suns
    ELSE With(AddSun(suns,
                     IF i = 0 THEN sunvec_in
                     ELSE [sunvec_in EXCEPT !.kind = "jitter", !.step = i],
                     light, color, gs.sunlight_dirt, gs),
              LAMBDA suns1 :
              SunSamples(suns1, i + 1, n, light, color, sunvec_in, gs))

SetupSun(suns, light, color, sunvec_in, gs) ==
    With(IF gs.sun_deviance = 0 THEN 1 ELSE gs.sunsamples,
         LAMBDA sun_num_samples :
         SunSamples(suns, 0, sun_num_samples,
                    RatDivInt(light, sun_num_samples), color, sunvec_in, gs))

SetupSuns(suns, gs) ==
    With(SetupSun(suns, gs.sunlight, gs.sunlight_color, gs.sunvec, gs),
         LAMBDA suns1 :
         IF gs.sun2 # RatZero
         THEN SetupSun(suns1, gs.sun2, gs.sun2_color, gs.sun2vec, gs)
         ELSE suns1)

\* C integer division: truncation toward zero
CDiv(a, b) == IF a >= 0 THEN a \div b ELSE -((-a) \div b)

\* rint(sqrt(q)) for an integer q >= 0
RintSqrt(q) ==
    CHOOSE k \in 0..q :
        /\ 4 * q < (2 * k + 1) * (2 * k + 1)
        /\ (k = 0 \/ (2 * k - 1) * (2 * k - 1) < 4 * q)

Max(a, b) == IF a > b THEN a ELSE b

\* mutant: the vertical sun is not counted
DomeSunCount_NoVertical(angleSteps, elevationSteps) ==
    angleSteps * elevationSteps

\* numSuns
DomeSunCount(angleSteps, elevationSteps) == angleSteps * elevationSteps + 1

RECURSIVE DomeGrid(_, _, _, _, _, _, _)
\* the two nested loops from grid cell n on (n = i * angleSteps + j)
DomeGrid(suns, n, angleSteps, elevationSteps, v2, v3, gs) ==
    IF n >= angleSteps * elevationSteps THEN suns
    ELSE
        With([kind |-> "dome", ring |-> n \div angleSteps,
              step |-> n % angleSteps, z |-> -1], LAMBDA direction :
        With(IF RatLess(RatZero, v2)
             THEN AddSun(suns, direction, v2, gs.sunlight2_color,
                         gs.sunlight2_dirt, gs)
             ELSE suns, LAMBDA suns1 :
        With(IF RatLess(RatZero, v3)
             THEN AddSun(suns1, [direction EXCEPT !.z = -direction.z], v3,
                         gs.sunlight3_color, gs.sunlight2_dirt, gs)
             ELSE suns1, LAMBDA suns2 :
        DomeGrid(suns2, n + 1, angleSteps, elevationSteps, v2, v3, gs))))

\* the grid, then the two vertical suns
DomeSuns(suns, angleSteps, elevationSteps, v2, v3, gs) ==
    With(DomeGrid(suns, 0, angleSteps, elevationSteps, v2, v3, gs),
         LAMBDA suns1 :
    With(IF RatLess(RatZero, v2)
         THEN AddSun(suns1, [kind |-> "vertical", ring |-> elevationSteps,
                             step |-> 0, z |-> 1],
                     v2, gs.sunlight2_color, gs.sunlight2_dirt, gs)
         ELSE suns1, LAMBDA suns2 :
         IF RatLess(RatZero, v3)
         THEN AddSun(suns2, [kind |-> "vertical", ring |-> elevationSteps,
                             step |-> 0, z |-> -1],
                     v3, gs.sunlight3_color, gs.sunlight2_dirt, gs)
         ELSE suns2))

\* mutant: the lower limit of 2 is left out
DomeIterations_NoMinimum(sunsamples) ==
    RintSqrt(CDiv(sunsamples - 1, 4)) + 1

DomeIterations(sunsamples) ==
    Max(RintSqrt(CDiv(sunsamples - 1, 4)) + 1, 2)

SetupSkyDome(suns, gs) ==
    IF ~RatLess(RatZero, gs.sunlight2) /\ ~RatLess(RatZero, gs.sunlight3)
    THEN suns
    ELSE
        With(DomeIterations(gs.sunsamples) - 1, LAMBDA elevationSteps :
        With(DomeSunCount(elevationSteps * 4, elevationSteps), LAMBDA numSuns :
             DomeSuns(suns, elevationSteps * 4, elevationSteps,
                      RatDivInt(gs.sunlight2, numSuns),
                      RatDivInt(gs.sunlight3, numSuns), gs)))

(***************************************************************************)
(* The BSP view.  Lump indices are 0-based as in the file; Lump(seq, i) is *)
(* seq[i] of the C array.  Coordinates are in tenths of a unit.            *)
(***************************************************************************)
CONTENTS == [EMPTY |-> -1, SOLID |-> -2, WATER |-> -3, SLIME |-> -4,
             LAVA |-> -5, SKY |-> -6]

PLANE == [X |-> 0, Y |-> 1, Z |-> 2, ANYX |-> 3]

Lump(seq, i) == seq[i + 1]

DotProduct(a, b) == a[1] * b[1] + a[2] * b[2] + a[3] * b[3]

\* point in tenths, plane.normal in whole units, plane.dist in tenths
Plane_Dist(point, plane) ==
    IF plane.type = PLANE.X THEN point[1] - plane.dist
    ELSE IF plane.type = PLANE.Y THEN point[2] - plane.dist
    ELSE IF plane.type = PLANE.Z THEN point[3] - plane.dist
    ELSE DotProduct(point, plane.normal) - plane.dist

\* 0.1, the width of the band around a plane in which both sides are tried
ON_EPSILON == 1

RECURSIVE Light_PointInSolid_r_WideBand(_, _, _)
\* mutant: the band around a plane is 0.2 wide on each side
Light_PointInSolid_r_WideBand(world, nodenum, point) ==
    IF nodenum < 0 THEN
        Lump(world.dleafs, -1 - nodenum).contents
            \in {CONTENTS.SOLID, CONTENTS.SKY}
    ELSE
        With(Plane_Dist(point, Lump(world.dplanes,
                                    Lump(world.dnodes, nodenum).planenum)),
             LAMBDA dist :
        IF dist > 2 * ON_EPSILON THEN
            Light_PointInSolid_r_WideBand(world,
                Lump(world.dnodes, nodenum).children[1], point)
        ELSE IF dist < -2 * ON_EPSILON THEN
            Light_PointInSolid_r_WideBand(world,
                Lump(world.dnodes, nodenum).children[2], point)
        ELSE
            \/ Light_PointInSolid_r_WideBand(world,
                   Lump(world.dnodes, nodenum).children[1], point)
            \/ Light_PointInSolid_r_WideBand(world,
                   Lump(world.dnodes, nodenum).children[2], point))

RECURSIVE Light_PointInSolid_r(_, _, _)
Light_PointInSolid_r(world, nodenum, point) ==
    IF nodenum < 0 THEN
        Lump(world.dleafs, -1 - nodenum).contents
            \in {CONTENTS.SOLID, CONTENTS.SKY}
    ELSE
        With(Plane_Dist(point, Lump(world.dplanes,
                                    Lump(world.dnodes, nodenum).planenum)),
             LAMBDA dist :
        IF dist > ON_EPSILON THEN
            Light_PointInSolid_r(world, Lump(world.dnodes, nodenum).children[1],
                                 point)
        ELSE IF dist < -ON_EPSILON THEN
            Light_PointInSolid_r(world, Lump(world.dnodes, nodenum).children[2],
                                 point)
        ELSE
            \/ Light_PointInSolid_r(world,
                   Lump(world.dnodes, nodenum).children[1], point)
            \/ Light_PointInSolid_r(world,
                   Lump(world.dnodes, nodenum).children[2], point))

\* only hull 0 of model 0 (world)
Light_PointInSolid(world, point) ==
    Light_PointInSolid_r(world, world.headnode, point)

\* mutant: the test points are 1 unit away
NudgedPoint_OneUnit(point, i) ==
    [point EXCEPT ![(i \div 2) + 1] = @ + (IF i % 2 = 1 THEN Fixed(1)
                                                    ELSE -Fixed(1))]

\* the i-th test point of FixLightOnFace: 2 units along axis i/2
NudgedPoint(point, i) ==
    [point EXCEPT ![(i \div 2) + 1] = @ + (IF i % 2 = 1 THEN Fixed(2)
                                                    ELSE -Fixed(2))]

\* result: [point, warned]
FixLightOnFace(world, point) ==
    IF ~Light_PointInSolid(world, point) THEN
        [point |-> point, warned |-> FALSE]
    ELSE
        With({i \in 0..5 : ~Light_PointInSolid(world, NudgedPoint(point, i))},
             LAMBDA free :
             IF free = {} THEN [point |-> point, warned |-> TRUE]
             ELSE [point |-> NudgedPoint(point,
                                 CHOOSE i \in free : \A j \in free : i <= j),
                   warned |-> FALSE])

RECURSIVE Light_PointInLeaf_r(_, _, _)
Light_PointInLeaf_r(world, nodenum, point) ==
    IF nodenum < 0 THEN -1 - nodenum
    ELSE IF Plane_Dist(point, Lump(world.dplanes,
                                   Lump(world.dnodes, nodenum).planenum)) >= 0
    THEN Light_PointInLeaf_r(world, Lump(world.dnodes, nodenum).children[1],
                             point)
    ELSE Light_PointInLeaf_r(world, Lump(world.dnodes, nodenum).children[2],
                             point)

\* the leaf (its number) that holds the point
Light_PointInLeaf(world, point) ==
    Light_PointInLeaf_r(world, world.headnode, point)

Face_Texinfo(world, face) ==
    IF face.texinfo < 0 \/ face.texinfo >= Len(world.texinfo)
    THEN [null |-> TRUE]
    ELSE [null |-> FALSE] @@ Lump(world.texinfo, face.texinfo)

\* the texture name of a face: the miptex name, else the rgba miptex name,
\* else the texinfo's own texture field, else ""
Face_TextureName(world, face) ==
    With(Face_Texinfo(world, face), LAMBDA texinfo :
    IF Len(world.dtex) > 0 /\ ~texinfo.null
       /\ Lump(world.dtex, texinfo.miptex).name # <<>>
    THEN Lump(world.dtex, texinfo.miptex).name
    ELSE IF Len(world.drgbatexdata) > 0 /\ ~texinfo.null
    THEN Lump(world.drgbatexdata, texinfo.miptex).name
    ELSE IF ~texinfo.null /\ texinfo.texture # <<>>
    THEN texinfo.texture
    ELSE <<>>)

\* ModelInfoForFace: the model that owns the face, or null
ModelInfoForFace(world, facenum) == Lump(world.modelinfo, facenum)

\* the vertices of a face through its surfedges
FaceVerts(world, face) ==
    [i \in 1..face.numedges |->
        With(Lump(world.dsurfedges, face.firstedge + i - 1), LAMBDA edgenum :
             IF edgenum >= 0
             THEN Lump(world.dvertexes, Lump(world.dedges, edgenum)[1])
             ELSE Lump(world.dvertexes, Lump(world.dedges, -edgenum)[2]))]

(***************************************************************************)
(* Surface lights                                                          *)
(***************************************************************************)
\* ValueForKey(light, key): the value in the dict the light points to
ValueForKey(dicts, entity, key) ==
    EntDict_StringForKey(dicts[entity.epairs], key)

MinOf(S) == CHOOSE x \in S : \A y \in S : x <= y

MaxOf(S) == CHOOSE x \in S : \A y \in S : x >= y

\* 9999, the start value of the bounds
BOUND_INIT == 9999

BoundPoly(verts) ==
    [ mins |-> [j \in 1..3 |->
                  MinOf({Fixed(BOUND_INIT)} \cup {verts[n][j] : n \in 1..Len(verts)})],
      maxs |-> [j \in 1..3 |->
                  MaxOf({-Fixed(BOUND_INIT)} \cup {verts[n][j] : n \in 1..Len(verts)})] ]

\* m = subdivide_size * floor((mins + maxs) * 0.5 / subdivide_size + 0.5)
CutValue(bounds, i, subdivide_size) ==
    subdivide_size * ((bounds.mins[i] + bounds.maxs[i] + subdivide_size)
                          \div (2 * subdivide_size))

\* 8 units: the least width a side of a cut may have
MIN_CUT == 8

CutAxes_Strict(bounds, subdivide_size) ==
    { i \in 1..3 :
        /\ bounds.maxs[i] - CutValue(bounds, i, subdivide_size) > Fixed(MIN_CUT)
        /\ CutValue(bounds, i, subdivide_size) - bounds.mins[i] > Fixed(MIN_CUT) }

\* the axes along which the polygon is wide enough on both sides of m
CutAxes(bounds, subdivide_size) ==
    { i \in 1..3 :
        /\ bounds.maxs[i] - CutValue(bounds, i, subdivide_size) >= Fixed(MIN_CUT)
        /\ CutValue(bounds, i, subdivide_size) - bounds.mins[i] >= Fixed(MIN_CUT) }

\* v + frac * (w - v) with frac = dj / (dj - dk), kept to the tenth
ClipPoint(v, w, dj, dk) ==
    [k \in 1..3 |-> v[k] + CDiv(dj * (w[k] - v[k]), dj - dk)]

\* one pass of the clip loop, for vertex j (1-based): the points it
\* appends to front and to back; dist and verts carry the wrap entry
ClipAt(verts, dist, j) ==
    With(IF dist[j] = 0 \/ dist[j + 1] = 0
            \/ (dist[j] > 0) = (dist[j + 1] > 0)
         THEN <<>>
         ELSE <<ClipPoint(verts[j], verts[j + 1], dist[j], dist[j + 1])>>,
         LAMBDA c :
         [front |-> (IF dist[j] >= 0 THEN <<verts[j]>> ELSE <<>>) \o c,
          back |-> (IF dist[j] <= 0 THEN <<verts[j]>> ELSE <<>>) \o c])

RECURSIVE ClipFrom(_, _, _, _)
\* the passes lo .. hi of the clip loop, in order
ClipFrom(verts, dist, lo, hi) ==
    IF lo > hi THEN [front |-> <<>>, back |-> <<>>]
    ELSE IF lo = hi THEN ClipAt(verts, dist, lo)
    ELSE With(ClipFrom(verts, dist, lo, (lo + hi) \div 2), LAMBDA a :
         With(ClipFrom(verts, dist, ((lo + hi) \div 2) + 1, hi), LAMBDA c :
              [front |-> a.front \o c.front, back |-> a.back \o c.back]))

ClipPoly_Uncut(verts, i, m) == [front |-> verts, back |-> verts]

\* cut the polygon by the plane axis i = m: [front, back]
ClipPoly(verts, i, m) ==
    With(Append(verts, verts[1]), LAMBDA wrapped :
    With([j \in 1..Len(wrapped) |-> wrapped[j][i] - m], LAMBDA dist :
         ClipFrom(wrapped, dist, 1, Len(verts))))

\* 60, the most vertices a polygon may have
MAX_SUBDIVIDE_VERTS == 60

RECURSIVE SubdividePolygon(_, _)
\* result: [fatal, polys], polys being the polygons lights are created on,
\* in the order they are reached
SubdividePolygon(verts, subdivide_size) ==
    IF Len(verts) > MAX_SUBDIVIDE_VERTS THEN
        [fatal |-> "numverts", polys |-> <<>>]
    ELSE
        With(BoundPoly(verts), LAMBDA bounds :
        With(CutAxes(bounds, subdivide_size), LAMBDA axes :
        IF axes = {} THEN [fatal |-> "none", polys |-> <<verts>>]
        ELSE
            With(ClipPoly(verts, MinOf(axes),
                          CutValue(bounds, MinOf(axes), subdivide_size)),
                 LAMBDA c :
            With(SubdividePolygon(c.front, subdivide_size), LAMBDA f :
            IF f.fatal # "none" THEN f
            ELSE With(SubdividePolygon(c.back, subdivide_size), LAMBDA b :
                      [fatal |-> b.fatal, polys |-> f.polys \o b.polys])))))

\* GL_SubdivideSurface
GL_SubdivideSurface(world, face, subdivide_size) ==
    SubdividePolygon(FaceVerts(world, face), subdivide_size)

RECURSIVE VecSum(_, _)
VecSum(verts, n) ==
    IF n = 0 THEN <<0, 0, 0>>
    ELSE With(VecSum(verts, n - 1), LAMBDA acc : VecAdd(acc, verts[n]))

\* the light appended for one polygon and one template
CreateSurfaceLight(dicts, origin, normal, surflight_template) ==
    With([surflight_template EXCEPT !.origin = origin, !.generated = TRUE],
         LAMBDA entity :
         IF TruncToInt(NumberOf(ValueForKey(dicts, surflight_template,
                                            K.x_surface_spotlight))) # 0
         THEN [entity EXCEPT !.spotlight = TRUE,
                             !.spotvec = [from |-> "normal", v |-> normal]]
         ELSE entity)

CreateSurfaceLightOnFaceSubdivision(world, dicts, face, face_modelinfo,
                                    surflight_template, verts) ==
    With(VecSum(verts, Len(verts)), LAMBDA sum :
    With([k \in 1..3 |-> CDiv(sum[k], Len(verts))], LAMBDA midpoint :
    With(IF face.side # 0
         THEN VecScale(Lump(world.dplanes, face.planenum).normal, -1)
         ELSE Lump(world.dplanes, face.planenum).normal, LAMBDA normal :
    With(NumberOf(ValueForKey(dicts, surflight_template, K.x_surface_offset)),
         LAMBDA given :
    With(IF given = 0 THEN Fixed(2) ELSE given, LAMBDA offset :
         CreateSurfaceLight(dicts,
             VecAdd(VecAdd(midpoint, VecScale(normal, offset)),
                    face_modelinfo.offset),
             normal, surflight_template))))))

\* the lights one polygon gets: one for every template whose _surface is
\* the texture of the face (Q_strcasecmp), in template order
LightsOnPoly(world, dicts, facenum, templates, verts) ==
    With(Face_TextureName(world, Lump(world.dfaces, facenum)), LAMBDA texname :
    With(SelectSeq(templates,
                   LAMBDA t : StrCaseEq(texname,
                                        ValueForKey(dicts, t, K.x_surface))),
         LAMBDA matching :
         [n \in 1..Len(matching) |->
            CreateSurfaceLightOnFaceSubdivision(
                world, dicts, Lump(world.dfaces, facenum),
                ModelInfoForFace(world, facenum), matching[n], verts)]))

RECURSIVE LightsOnPolys(_, _, _, _, _, _)
\* the lights of the polygons from the n-th on
LightsOnPolys(world, dicts, facenum, templates, polys, n) ==
    IF n > Len(polys) THEN <<>>
    ELSE With(LightsOnPoly(world, dicts, facenum, templates, polys[n]),
              LAMBDA here :
              here \o LightsOnPolys(world, dicts, facenum, templates, polys,
                                    n + 1))

RECURSIVE FlattenSeqs(_, _)
FlattenSeqs(seqs, n) ==
    IF n > Len(seqs) THEN <<>> ELSE seqs[n] \o FlattenSeqs(seqs, n + 1)

\* the marksurface entries of all leafs in the order the two loops reach
\* them: [leaf, facenum]
MarkEntries(world) ==
    With([i \in 1..Len(world.dleafs) |->
            [k \in 1..world.dleafs[i].nummarksurfaces |->
                [leaf |-> i - 1,
                 facenum |-> Lump(world.dmarksurfaces,
                                  world.dleafs[i].firstmarksurface + k - 1)]]],
         LAMBDA perLeaf : FlattenSeqs(perLeaf, 1))

\* the face is skipped: no modelinfo, or a liquid seen from under water
SkipsFace(world, entry) ==
    \/ ModelInfoForFace(world, entry.facenum).null
    \/ /\ CharAt(Face_TextureName(world, Lump(world.dfaces, entry.facenum)), 0)
              = 42
       /\ Lump(world.dleafs, entry.leaf).contents # CONTENTS.EMPTY

\* variant used to check that the once-per-face property depends on the
\* code: the visited flags are never seen set
Face_Visited_Never(visited, facenum) == FALSE

\* face_visited.at(facenum)
Face_Visited(visited, facenum) == facenum \in visited

RECURSIVE SurfaceLightsFrom(_, _, _, _, _, _, _)
\* the leaf loops from mark entry n on.  result: [fatal, lights, visited,
\* calls], calls being the face numbers GL_SubdivideSurface was invoked
\* on, in order
SurfaceLightsFrom(world, dicts, gs, templates, entries, n, acc) ==
    IF n > Len(entries) THEN acc
    ELSE IF SkipsFace(world, entries[n])
            \/ Face_Visited(acc.visited, entries[n].facenum)
    THEN SurfaceLightsFrom(world, dicts, gs, templates, entries, n + 1, acc)
    ELSE
        With(GL_SubdivideSurface(world, Lump(world.dfaces, entries[n].facenum),
                                 gs.surflight_subdivide), LAMBDA sub :
        IF sub.fatal # "none"
        THEN [acc EXCEPT !.fatal = sub.fatal,
                         !.calls = Append(@, entries[n].facenum)]
        ELSE
            With([fatal |-> "none",
                  calls |-> Append(acc.calls, entries[n].facenum),
                  lights |-> acc.lights
                               \o LightsOnPolys(world, dicts,
                                                entries[n].facenum, templates,
                                                sub.polys, 1),
                  visited |-> acc.visited \cup {entries[n].facenum}],
                 LAMBDA acc1 :
                 SurfaceLightsFrom(world, dicts, gs, templates, entries,
                                   n + 1, acc1)))

IsTemplate(dicts, entity) == ValueForKey(dicts, entity, K.x_surface) # <<>>

\* mutant: the templates keep their intensity
ClearTemplates_Keep(dicts, lights) == lights

\* entity.light.setFloatValue(0) on the templates left in all_lights
ClearTemplates(dicts, lights) ==
    [n \in 1..Len(lights) |->
        IF IsTemplate(dicts, lights[n])
        THEN [lights[n] EXCEPT !.light = RatZero] ELSE lights[n]]

\* result: [fatal, lights, visited, calls]
MakeSurfaceLights(world, dicts, gs, lights) ==
    With(SelectSeq(lights, LAMBDA e : IsTemplate(dicts, e)),
         LAMBDA surfacelight_templates :
    With(ClearTemplates(dicts, lights), LAMBDA cleared :
         IF Len(surfacelight_templates) = 0
         THEN [fatal |-> "none", lights |-> cleared, visited |-> {},
               calls |-> <<>>]
         ELSE SurfaceLightsFrom(world, dicts, gs, surfacelight_templates,
                                MarkEntries(world), 1,
                                [fatal |-> "none", lights |-> cleared,
                                 visited |-> {}, calls |-> <<>>])))

(***************************************************************************)
(* The steps of SetupLights after the surface lights                       *)
(***************************************************************************)
\* the number of duplicates JitterEntity makes of a light
DuplicatesOf(entity) == IF entity.samples > 1 THEN entity.samples - 1 ELSE 0

RECURSIVE SumDuplicates(_, _)
SumDuplicates(lights, n) ==
    IF n = 0 THEN 0
    ELSE With(SumDuplicates(lights, n - 1),
              LAMBDA acc : acc + DuplicatesOf(lights[n]))

\* mutant: the copy is not marked as generated
JitterCopy_NotGenerated(entity, rnd) ==
    [entity EXCEPT !.origin = VecAdd(entity.origin,
                                     VecScale(rnd, entity.deviance))]

\* one jittered copy; rnd holds Random() * 2 - 1 for the three components
JitterCopy(entity, rnd) ==
    [entity EXCEPT !.generated = TRUE,
                   !.origin = VecAdd(entity.origin,
                                     VecScale(rnd, entity.deviance))]

RECURSIVE JitterFrom(_, _, _, _, _)
\* JitterEntities from light i on (1-based), used being the number of
\* random triples drawn so far
JitterFrom(lights, starting_size, i, used, rnds) ==
    IF i > starting_size THEN lights
    ELSE
        With(lights \o [j \in 1..DuplicatesOf(lights[i]) |->
                           JitterCopy(lights[i], rnds[used + j])],
             LAMBDA lights1 :
             JitterFrom(lights1, starting_size, i + 1,
                        used + DuplicatesOf(lights[i]), rnds))

JitterEntities(lights, rnds) == JitterFrom(lights, Len(lights), 1, 0, rnds)

\* the dicts whose targetname is the target, by index
TargetsNamed(dicts, targetstr) ==
    { i \in 1..Len(dicts) :
        EntDict_StringForKey(dicts[i], K.targetname) = targetstr }

\* mutant: the search does not stop at the first match
MatchTarget_Last(dicts, entity) ==
    With(TargetsNamed(dicts, ValueForKey(dicts, entity, K.target)),
         LAMBDA found :
         IF ValueForKey(dicts, entity, K.target) = <<>> \/ found = {}
         THEN entity
         ELSE [entity EXCEPT !.targetent = MaxOf(found)])

\* the light after the body of the loop of MatchTargets
MatchTarget(dicts, entity) ==
    With(TargetsNamed(dicts, ValueForKey(dicts, entity, K.target)),
         LAMBDA found :
         IF ValueForKey(dicts, entity, K.target) = <<>> \/ found = {}
         THEN entity
         ELSE [entity EXCEPT !.targetent = MinOf(found)])

Unmatched(dicts, entity) ==
    /\ ValueForKey(dicts, entity, K.target) # <<>>
    /\ TargetsNamed(dicts, ValueForKey(dicts, entity, K.target)) = {}

\* result: [lights, log]
MatchTargets(dicts, lights) ==
    [ lights |-> [n \in 1..Len(lights) |-> MatchTarget(dicts, lights[n])],
      log |-> [n \in 1..Len(SelectSeq(lights,
                                     LAMBDA e : Unmatched(dicts, e))) |->
                  "WARNING: entity has unmatched target"] ]

\* 40 degrees, the cone a spotlight gets when its angle is not positive
DEFAULT_SPOTANGLE == 40

\* garbage is what the uninitialised targetOrigin holds where sscanf
\* converts nothing
SetupSpotlight(dicts, entity, garbage) ==
    With(IF entity.targetent # 0
         THEN [entity EXCEPT
                 !.spotvec = [from |-> "target",
                              v |-> VecSub(ScanVec3(EntDict_StringForKey(
                                               dicts[entity.targetent],
                                               K.origin), garbage),
                                           entity.origin)],
                 !.spotlight = TRUE]
         ELSE entity, LAMBDA e :
    IF ~e.spotlight THEN e
    ELSE
        With(IF e.spotangle > 0 THEN e.spotangle
             ELSE Fixed(DEFAULT_SPOTANGLE), LAMBDA angle :
        [e EXCEPT !.spotfalloff = [set |-> TRUE, angle |-> angle],
                  !.spotfalloff2 =
                      [set |-> TRUE,
                       angle |-> IF e.spotangle2 <= 0 \/ e.spotangle2 > angle
                                 THEN angle ELSE e.spotangle2]]))

SetupSpotlights(dicts, lights, garbage) ==
    [n \in 1..Len(lights) |-> SetupSpotlight(dicts, lights[n], garbage)]

\* the target of some light has an origin sscanf cannot convert in full
ReadsGarbage(dicts, lights) ==
    \E n \in 1..Len(lights) :
        /\ lights[n].targetent # 0
        /\ ScanVec3(EntDict_StringForKey(dicts[lights[n].targetent], K.origin),
                    <<0, 0, 0>>)
             # ScanVec3(EntDict_StringForKey(dicts[lights[n].targetent],
                                             K.origin), <<1, 1, 1>>)

\* result: [lights, log]
FixLightsOnFaces(world, lights) ==
    With([n \in 1..Len(lights) |->
            IF lights[n].light # RatZero
            THEN FixLightOnFace(world, lights[n].origin)
            ELSE [point |-> lights[n].origin, warned |-> FALSE]],
         LAMBDA fixed :
         [ lights |-> [n \in 1..Len(lights) |->
                         [lights[n] EXCEPT !.origin = fixed[n].point]],
           log |-> [n \in 1..Len(SelectSeq(fixed, LAMBDA f : f.warned)) |->
                       "WARNING: couldn't nudge light in solid"] ])

\* mutant: lights that lie in no leaf of the world are dropped
SetupLightLeafnums_DropsSolid(world, lights) ==
    SelectSeq([n \in 1..Len(lights) |->
                 [lights[n] EXCEPT
                    !.leaf = Light_PointInLeaf(world, lights[n].origin)]],
              LAMBDA e : e.leaf # 0)

SetupLightLeafnums(world, lights) ==
    [n \in 1..Len(lights) |->
        [lights[n] EXCEPT !.leaf = Light_PointInLeaf(world, lights[n].origin)]]

(***************************************************************************)
(* Entity-text cases: dict lists to write and re-read, and token streams   *)
(***************************************************************************)
MaxDicts  == 2
MaxTokens == 4

\* "k", "a b", "", and keys of 31 and 32 bytes
KeyPool == { <<107>>, <<97, CH_SPACE, 98>>, <<>>,
             Rep(107, MAX_ENT_KEY - 1), Rep(107, MAX_ENT_KEY) }

\* "v", "x\ny", "", and values of 1023 and 1024 bytes
ValPool == { <<118>>, <<120, CH_NL, 121>>, <<>>,
             Rep(118, MAX_ENT_VALUE - 1), Rep(118, MAX_ENT_VALUE) }

\* dicts of at most two pairs: every key with a short value, every value
\* under a short key, and two-pair dicts of short strings
DictPool ==
    {EmptyDict}
    \cup {DictSet(EmptyDict, k, <<118>>) : k \in KeyPool}
    \cup {DictSet(EmptyDict, <<107>>, v) : v \in ValPool}
    \cup {DictSet(DictSet(EmptyDict, <<107>>, v), <<97, CH_SPACE, 98>>, w) :
            v \in {<<118>>, <<>>}, w \in {<<118>>, <<120, CH_NL, 121>>}}

SeqsUpTo(S, n) == UNION {[1..m -> S] : m \in 0..n}

\* tokens: the braces, "k", a 32-byte and a 1024-byte token, "}x" and "{x"
TokenPool == { <<CH_LBRACE>>, <<CH_RBRACE>>, <<107>>,
               Rep(107, MAX_ENT_KEY), Rep(118, MAX_ENT_VALUE),
               <<CH_RBRACE, 120>>, <<CH_LBRACE, 120>> }

RECURSIVE PairTokens(_, _)
PairTokens(ent, keys) ==
    IF keys = <<>> THEN <<>>
    ELSE <<Head(keys), ent[Head(keys)]>> \o PairTokens(ent, Tail(keys))

RECURSIVE DictTokens(_)
\* the token stream of the text EntData_Write emits for ents
DictTokens(ents) ==
    IF ents = <<>> THEN <<>>
    ELSE <<(<<CH_LBRACE>>)>>
         \o PairTokens(Head(ents), SortedKeys(DOMAIN Head(ents)))
         \o <<(<<CH_RBRACE>>)>>
         \o DictTokens(Tail(ents))

RECURSIVE RenderTokens(_)
\* entity text whose tokens are toks: braces bare, everything else quoted
RenderTokens(toks) ==
    IF toks = <<>> THEN <<>>
    ELSE (IF Head(toks) \in {<<CH_LBRACE>>, <<CH_RBRACE>>}
          THEN Head(toks)
          ELSE <<CH_QUOTE>> \o Head(toks) \o <<CH_QUOTE>>)
         \o <<CH_SPACE>> \o RenderTokens(Tail(toks))

NoOutput == [fatal |-> "none", result |-> <<>>]

NoCall == [name |-> <<>>, before |-> <<>>, ret |-> 0, fatal |-> "none"]

\* the parts of the state a driver does not use
ParseIdle ==
    /\ p_in = [kind |-> "none", es |-> <<>>, toks |-> <<>>]
    /\ p_text = <<>>
    /\ p_out = NoOutput
    /\ p_pc = "idle"

StyleIdle ==
    /\ lighttargetnames = <<>>
    /\ ls_call = NoCall

QueryIdle ==
    /\ q_bsp = NoWorld
    /\ q_call = [fn |-> "none", arg |-> 0, outcome |-> "none", value |-> 0]

BounceIdle ==
    /\ b_in = [faces |-> <<>>, texturecolors |-> <<>>,
               bouncecolorscale |-> RatZero, workers |-> 0]
    /\ next_work = 0
    /\ radlights_lock = 0
    /\ radlights = <<>>
    /\ radlightsByFacenum = <<>>
    /\ w_pc = <<>>
    /\ w_face = <<>>
    /\ w_light = <<>>
    /\ examined = <<>>

NoSubdivideCall ==
    [verts |-> <<>>, kind |-> "none", axis |-> 0, m |-> 0,
     front |-> <<>>, back |-> <<>>]

SubdivIdle ==
    /\ sd_in = [verts |-> <<>>, subdivide_size |-> 0]
    /\ sd_stack = <<>>
    /\ sd_cells = <<>>
    /\ sd_last = NoSubdivideCall
    /\ sd_oob = "none"
    /\ sd_pc = "idle"

PipeIdle ==
    /\ bsp = [dentdata |-> <<>>, world |-> NoWorld]
    /\ cfg = DefaultCfg
    /\ entdicts = <<>>
    /\ all_lights = <<>>
    /\ all_suns = <<>>
    /\ warned_once = TRUE
    /\ final_lightcount = -1
    /\ log = <<>>
    /\ fatal = "none"
    /\ trace = <<>>
    /\ pc = "idle"

InitParse ==
    /\ StyleIdle
    /\ PipeIdle
    /\ QueryIdle
    /\ BounceIdle
    /\ SubdivIdle
    /\ p_out = NoOutput
    /\ \/ \E es \in SeqsUpTo(DictPool, MaxDicts) :
            /\ p_in = [kind |-> "dicts", es |-> es, toks |-> DictTokens(es)]
            /\ p_text = <<>>
            /\ p_pc = "start"
       \/ \E toks \in SeqsUpTo(TokenPool, MaxTokens) :
            /\ p_in = [kind |-> "tokens", es |-> <<>>, toks |-> toks]
            /\ p_text = RenderTokens(toks)
            /\ p_pc = "text"

\* WriteEntitiesToString: serialize the dicts into the entity lump
WriteEntities ==
    /\ p_pc = "start"
    /\ p_text' = EntData_Write(p_in.es)
    /\ p_pc' = "text"
    /\ UNCHANGED <<p_in, p_out>>
    /\ UNCHANGED styleVars
    /\ UNCHANGED pipeVars
    /\ UNCHANGED <<queryVars, bounceVars, subdivVars>>

\* LoadEntities' first statement: parse the entity lump
ParseEntityText ==
    /\ p_pc = "text"
    /\ p_out' = EntData_Parse(p_text)
    /\ p_pc' = "done"
    /\ UNCHANGED <<p_in, p_text>>
    /\ UNCHANGED styleVars
    /\ UNCHANGED pipeVars
    /\ UNCHANGED <<queryVars, bounceVars, subdivVars>>

NextParse == WriteEntities \/ ParseEntityText

SpecParse == InitParse /\ [][NextParse]_vars

(***************************************************************************)
(* Claims about the entity text                                            *)
(***************************************************************************)
\* no backslash, double quote or brace in s
NoSpecialChars(s) ==
    \A i \in 1..Len(s) : s[i] \notin {CH_BSLASH, CH_QUOTE, CH_LBRACE, CH_RBRACE}

CleanDicts(es) ==
    \A i \in 1..Len(es) : \A k \in DOMAIN es[i] :
        NoSpecialChars(k) /\ NoSpecialChars(es[i][k])

WithinLimits(es) ==
    \A i \in 1..Len(es) : \A k \in DOMAIN es[i] :
        Len(k) <= 31 /\ Len(es[i][k]) <= 1023

RoundTripped == p_out = [fatal |-> "none", result |-> p_in.es]

\* C3 as stated: EntData_Parse(EntData_Write(es)) = es for every es whose
\* keys and values hold no backslash, quote or brace, whatever their length.
C3_RoundTripAnyLength ==
    (p_pc = "done" /\ p_in.kind = "dicts" /\ CleanDicts(p_in.es))
        => RoundTripped

\* C3 amended: the round trip holds for every such es whose keys are at most
\* 31 bytes and whose values are at most 1023 bytes long.
C3_RoundTripWithinLimits ==
    (p_pc = "done" /\ p_in.kind = "dicts" /\ CleanDicts(p_in.es)
        /\ WithinLimits(p_in.es))
        => RoundTripped

\* C3 witness: two dicts, one with a 31-byte key, written and read back
C3_Witness ==
    /\ p_pc = "done"
    /\ p_in.kind = "dicts"
    /\ Len(p_in.es) = 2
    /\ WithinLimits(p_in.es)
    /\ \E k \in DOMAIN p_in.es[1] : Len(k) = 31
    /\ \E k \in DOMAIN p_in.es[2] : Len(p_in.es[2][k]) = 1023
    /\ RoundTripped

\* The grammar of the entity text over a token stream: blocks
\* "{ (key value)* }".  rules = "claimed" has the fatal cases C4 lists;
\* rules = "amended" also rejects a value that begins with '}' and accepts
\* as opening token any token that begins with '{'.
GrammarFatal == [fatal |-> TRUE, result |-> <<>>, entity |-> EmptyDict, next |-> 0]

OpensBlock(rules, t) ==
    IF rules = "claimed" THEN t = <<CH_LBRACE>> ELSE CharAt(t, 0) = CH_LBRACE

ValueAccepted(rules, t) ==
    /\ Len(t) <= 1023
    /\ rules = "amended" => CharAt(t, 0) # CH_RBRACE

RECURSIVE GrammarBlock(_, _, _, _)
GrammarBlock(rules, toks, i, ent) ==
    IF i > Len(toks) THEN GrammarFatal
    ELSE IF toks[i] = <<CH_RBRACE>> THEN
        [fatal |-> FALSE, result |-> <<>>, entity |-> ent, next |-> i + 1]
    ELSE IF Len(toks[i]) > 31 THEN GrammarFatal
    ELSE IF i + 1 > Len(toks) THEN GrammarFatal
    ELSE IF ~ValueAccepted(rules, toks[i + 1]) THEN GrammarFatal
    ELSE GrammarBlock(rules, toks, i + 2, DictSet(ent, toks[i], toks[i + 1]))

RECURSIVE GrammarBlocks(_, _, _, _)
GrammarBlocks(rules, toks, i, acc) ==
    IF i > Len(toks) THEN
        [fatal |-> FALSE, result |-> acc, entity |-> EmptyDict, next |-> i]
    ELSE IF ~OpensBlock(rules, toks[i]) THEN GrammarFatal
    ELSE LET b == GrammarBlock(rules, toks, i + 1, EmptyDict) IN
         IF b.fatal THEN GrammarFatal
         ELSE GrammarBlocks(rules, toks, b.next, Append(acc, b.entity))

ParseAgrees(rules) ==
    LET g == GrammarBlocks(rules, p_in.toks, 1, <<>>) IN
    /\ (p_out.fatal # "none") = g.fatal
    /\ ~g.fatal => p_out.result = g.result

\* C4 as stated: the parse is fatal exactly when a key exceeds 31 bytes, a
\* value exceeds 1023 bytes, a block's first token is not '{' or the text
\* ends inside a block; otherwise it returns one dict per block, in order.
C4_FatalCasesAsListed == p_pc = "done" => ParseAgrees("claimed")

\* C4 amended: the parse is also fatal when a value token begins with '}'
\* ("closing brace without data"), and the opening token is only required to
\* begin with '{'; in every other case one dict per block, in input order.
C4_FatalCasesAmended == p_pc = "done" => ParseAgrees("amended")

\* C4 witness: a block whose value position holds a token beginning with '}'
C4_Witness ==
    /\ p_pc = "done"
    /\ p_in.kind = "tokens"
    /\ Len(p_in.toks) = 4
    /\ p_out.fatal = "closing brace without data"

(***************************************************************************)
(* The registry on its own: any sequence of LightStyleForTargetname calls. *)
(* The function only compares names, so the k-th new name of a run is      *)
(* taken to be TargetName(k); a call passes a registered name or the next  *)
(* new one.  A fatal Error ends the process.                               *)
(***************************************************************************)
\* "t" followed by one byte that numbers the name
TargetName(k) == <<116, 48 + k>>

InitStyle ==
    /\ ParseIdle
    /\ PipeIdle
    /\ QueryIdle
    /\ BounceIdle
    /\ SubdivIdle
    /\ lighttargetnames = <<>>
    /\ ls_call = NoCall

CallLightStyle ==
    /\ ls_call.fatal = "none"
    /\ \E k \in 1..(Len(lighttargetnames) + 1) :
         LET r == LightStyleForTargetname(lighttargetnames, TargetName(k)) IN
         /\ lighttargetnames' = r.names
         /\ ls_call' = [name |-> TargetName(k), before |-> lighttargetnames,
                        ret |-> r.style, fatal |-> r.fatal]
    /\ UNCHANGED parseVars
    /\ UNCHANGED pipeVars
    /\ UNCHANGED <<queryVars, bounceVars, subdivVars>>

NextStyle == CallLightStyle

SpecStyle == InitStyle /\ [][NextStyle]_vars

\* C2: the registry never holds more than 32 names nor a name twice; a call
\* with a name registered at index i returns 32+i and leaves the registry
\* alone; every returned style is in [32,63]; a call with a new name when 32
\* names are registered is fatal and appends nothing.
C2_RegistryContract ==
    /\ Len(lighttargetnames) <= 32
    /\ \A i, j \in 1..Len(lighttargetnames) :
         lighttargetnames[i] = lighttargetnames[j] => i = j
    /\ ls_call # NoCall =>
         LET known == {i \in 1..Len(ls_call.before) :
                          ls_call.before[i] = ls_call.name} IN
         /\ \A i \in known :
              /\ ls_call.fatal = "none"
              /\ ls_call.ret = 32 + (i - 1)
              /\ lighttargetnames = ls_call.before
         /\ (known = {} /\ Len(ls_call.before) = 32) =>
              /\ ls_call.fatal # "none"
              /\ lighttargetnames = ls_call.before
         /\ (known = {} /\ Len(ls_call.before) < 32) =>
              /\ ls_call.fatal = "none"
              /\ lighttargetnames = Append(ls_call.before, ls_call.name)
              /\ ls_call.ret = 32 + Len(ls_call.before)
         /\ ls_call.fatal = "none" => ls_call.ret \in 32..63

\* C2 witness: the 33rd distinct name has been refused
C2_Witness ==
    /\ ls_call.fatal # "none"
    /\ Len(lighttargetnames) = 32
    /\ ls_call.name = TargetName(33)


(***************************************************************************)
(* LoadEntities as a step of the light process                             *)
(***************************************************************************)
Step_LoadEntities ==
    /\ pc = "LoadEntities"
    /\ \E r \in {LoadEntities(bsp.dentdata, cfg, lighttargetnames,
                             warned_once)} :
           /\ fatal' = r.fatal
           /\ pc' = IF r.fatal = "none" THEN "MakeSurfaceLights" ELSE "fatal"
           /\ entdicts' = r.entdicts
           /\ lighttargetnames' = r.names
           /\ cfg' = r.cfg
           /\ all_lights' = r.lights
           /\ warned_once' = r.warned_once
           /\ log' = log \o r.log
           /\ trace' = Append(trace, [step |-> "LoadEntities",
                                      seen |-> Len(r.lights)])
    /\ UNCHANGED <<bsp, all_suns, final_lightcount, ls_call>>
    /\ UNCHANGED <<parseVars, queryVars, bounceVars, subdivVars>>

\* the values every pipeline variable has when the process starts on a
\* given map with given command-line settings
PipeStart(map, settings) ==
    /\ ParseIdle
    /\ StyleIdle
    /\ QueryIdle
    /\ BounceIdle
    /\ SubdivIdle
    /\ bsp = map
    /\ cfg = settings
    /\ entdicts = <<>>
    /\ all_lights = <<>>
    /\ all_suns = <<>>
    /\ warned_once = TRUE
    /\ final_lightcount = -1
    /\ log = <<>>
    /\ fatal = "none"
    /\ trace = <<>>
    /\ pc = "LoadEntities"

(***************************************************************************)
(* Cases for LoadEntities alone                                            *)
(***************************************************************************)
MaxLoadEnts == 2

Worldspawn == DictSet(EmptyDict, K.classname, K.worldspawn)

\* "t", "u" and "t\b" (a targetname with a bold-toggle escape)
LoadNames == { <<116>>, <<117>>, <<116, CH_BSLASH, 98>> }

Classed(c) == DictSet(EmptyDict, K.classname, c)

\* lights and non-lights, with and without a targetname; lights that come
\* with style "5"; one with style "0", one with style "300", one with a
\* lightmap_scale key and one with delay "9"
LoadPool ==
    LET base == { Classed(K.light), Classed(K.info_null) }
        named == { DictSet(d, K.targetname, n) : d \in base, n \in LoadNames }
                    \ { DictSet(Classed(K.info_null), K.targetname, <<117>>) }
        plainOrNamed == base \cup named
        styled == { DictSet(d, K.style, <<53>>) :
                       d \in { x \in plainOrNamed :
                                 /\ x[K.classname] = K.light
                                 /\ EntDict_StringForKey(x, K.targetname)
                                        # <<117>> } }
    IN  plainOrNamed \cup styled
          \cup { DictSet(DictSet(Classed(K.light), K.targetname, <<116>>),
                         K.style, <<48>>),
                 DictSet(Classed(K.light), K.style, <<51, 48, 48>>),
                 DictSet(Classed(K.light), K.lightmap_scale, <<50>>),
                 DictSet(Classed(K.light), K.delay, <<57>>) }

LoadSettings == { DefaultCfg, [DefaultCfg EXCEPT !.nolights = TRUE] }

\* a map whose entity lump holds worldspawn and up to MaxLoadEnts entities,
\* or no worldspawn at all
InitLoad ==
    \/ \E es \in SeqsUpTo(LoadPool, MaxLoadEnts), settings \in LoadSettings :
          PipeStart([dentdata |-> EntData_Write(<<Worldspawn>> \o es),
                     world |-> NoWorld], settings)
    \/ \E es \in SeqsUpTo(LoadPool, 1) :
          PipeStart([dentdata |-> EntData_Write(es), world |-> NoWorld],
                    DefaultCfg)

NextLoad == Step_LoadEntities

SpecLoad == InitLoad /\ [][NextLoad]_vars

(***************************************************************************)
(* Claims on style assignment in LoadEntities                              *)
(***************************************************************************)
Loaded == pc = "MakeSurfaceLights"

IsLightDict(dict) ==
    StartsWith(EntDict_StringForKey(dict, K.classname), K.light)

StyleOfDict(dict) ==
    TruncToInt(NumberOf(EntDict_StringForKey(dict, K.style)))

\* the entity dicts as they stand in the entity lump
InputDicts == EntData_Parse(bsp.dentdata).result

\* C1 as stated: after LoadEntities, any two light entities that carry the
\* same non-empty targetname have the same style, and it lies in 32..63,
\* whatever style keys the lights came with.
C1_SameNameSameStyle ==
    Loaded =>
        \A i, j \in 1..Len(entdicts) :
            ( /\ IsLightDict(entdicts[i]) /\ IsLightDict(entdicts[j])
              /\ EntDict_StringForKey(entdicts[i], K.targetname) # <<>>
              /\ EntDict_StringForKey(entdicts[i], K.targetname)
                     = EntDict_StringForKey(entdicts[j], K.targetname) )
            => /\ StyleOfDict(entdicts[i]) = StyleOfDict(entdicts[j])
               /\ StyleOfDict(entdicts[i]) \in 32..63

\* C1 amended: after LoadEntities, any two light entities that came in the
\* entity lump with the same non-empty targetname text and with no style or
\* style 0 have the same style, and it lies in 32..63; a light that came
\* with a non-zero style keeps that style; and every light_t built has the
\* style of its dict.
C1_SameNameSameStyleUnlessExplicit ==
    Loaded =>
        LET in == InputDicts
            fresh(i) == /\ IsLightDict(in[i])
                        /\ EntDict_StringForKey(in[i], K.targetname) # <<>>
                        /\ StyleOfDict(in[i]) = 0
        IN
        /\ Len(entdicts) = Len(in)
        /\ \A i, j \in 1..Len(entdicts) :
            ( /\ fresh(i) /\ fresh(j)
              /\ EntDict_StringForKey(in[i], K.targetname)
                     = EntDict_StringForKey(in[j], K.targetname) )
            => /\ StyleOfDict(entdicts[i]) = StyleOfDict(entdicts[j])
               /\ StyleOfDict(entdicts[i]) \in 32..63
        /\ \A i \in 1..Len(entdicts) :
            (IsLightDict(in[i]) /\ StyleOfDict(in[i]) # 0)
            => StyleOfDict(entdicts[i]) = StyleOfDict(in[i])
        /\ \A n \in 1..Len(all_lights) :
            all_lights[n].style = StyleOfDict(entdicts[all_lights[n].epairs])

\* two lights that came with the same targetname and no style were given
\* the same fresh style
C1_Witness ==
    /\ Loaded
    /\ Len(all_lights) = 2
    /\ LET in == InputDicts IN
       \E i, j \in 1..Len(entdicts) :
          /\ i < j
          /\ IsLightDict(in[i]) /\ IsLightDict(in[j])
          /\ EntDict_StringForKey(in[i], K.targetname) = <<116>>
          /\ EntDict_StringForKey(in[j], K.targetname) = <<116>>
          /\ K.style \notin DOMAIN in[i]
          /\ K.style \notin DOMAIN in[j]
          /\ StyleOfDict(entdicts[i]) = 32
          /\ StyleOfDict(entdicts[j]) = 32
          /\ all_lights[1].style = 32
          /\ all_lights[2].style = 32

(***************************************************************************)
(* SetupLights: the steps in the order they are called                     *)
(***************************************************************************)
\* LoadEntities is called by main before SetupLights
StepOrder ==
    << "LoadEntities", "MakeSurfaceLights", "JitterEntities", "MatchTargets",
       "SetupSpotlights", "SetupSuns", "SetupSkyDome", "FixLightsOnFaces",
       "SetupLightLeafnums" >>

\* mutant: targets are matched before the lights are jittered
StepAfter_MatchBeforeJitter(step) ==
    IF step = "MakeSurfaceLights" THEN "MatchTargets"
    ELSE IF step = "MatchTargets" THEN "JitterEntities"
    ELSE IF step = "JitterEntities" THEN "SetupSpotlights"
    ELSE With(CHOOSE n \in 1..Len(StepOrder) : StepOrder[n] = step, LAMBDA n :
              IF n = Len(StepOrder) THEN "assert" ELSE StepOrder[n + 1])

\* what runs after a step: the next call, or the closing assertion
StepAfter(step) ==
    With(CHOOSE n \in 1..Len(StepOrder) : StepOrder[n] = step, LAMBDA n :
         IF n = Len(StepOrder) THEN "assert" ELSE StepOrder[n + 1])

\* the history entry of a step whose loop visited `seen` lights
Ran(step, seen) == Append(trace, [step |-> step, seen |-> seen])

Step_MakeSurfaceLights ==
    /\ pc = "MakeSurfaceLights"
    /\ \E r \in {MakeSurfaceLights(bsp.world, entdicts, cfg, all_lights)} :
           /\ fatal' = r.fatal
           /\ pc' = IF r.fatal = "none" THEN StepAfter("MakeSurfaceLights")
                    ELSE "fatal"
           /\ all_lights' = r.lights
    /\ trace' = Ran("MakeSurfaceLights", Len(all_lights))
    /\ UNCHANGED <<bsp, cfg, entdicts, all_suns, warned_once,
                   final_lightcount, log>>
    /\ UNCHANGED <<parseVars, styleVars, queryVars, bounceVars, subdivVars>>

\* Random() * 2 - 1, the values the model draws it from
JitterPool == { <<-1, -1, -1>>, <<1, 0, 1>> }

\* JitterEntities, and const size_t final_lightcount = all_lights.size()
Step_JitterEntities ==
    /\ pc = "JitterEntities"
    /\ \E rnds \in [1..SumDuplicates(all_lights, Len(all_lights))
                      -> JitterPool] :
         \E lights1 \in {JitterEntities(all_lights, rnds)} :
           /\ all_lights' = lights1
           /\ final_lightcount' = Len(lights1)
    /\ pc' = StepAfter("JitterEntities")
    /\ trace' = Ran("JitterEntities", Len(all_lights))
    /\ UNCHANGED <<bsp, cfg, entdicts, all_suns, warned_once, log, fatal>>
    /\ UNCHANGED <<parseVars, styleVars, queryVars, bounceVars, subdivVars>>

Step_MatchTargets ==
    /\ pc = "MatchTargets"
    /\ \E r \in {MatchTargets(entdicts, all_lights)} :
           /\ all_lights' = r.lights
           /\ log' = log \o r.log
    /\ pc' = StepAfter("MatchTargets")
    /\ trace' = Ran("MatchTargets", Len(all_lights))
    /\ UNCHANGED <<bsp, cfg, entdicts, all_suns, warned_once,
                   final_lightcount, fatal>>
    /\ UNCHANGED <<parseVars, styleVars, queryVars, bounceVars, subdivVars>>

\* what an uninitialised vec3_t may hold
GarbagePool == { <<0, 0, 0>>, <<70, -30, 10>> }

Step_SetupSpotlights ==
    /\ pc = "SetupSpotlights"
    /\ \E garbage \in IF ReadsGarbage(entdicts, all_lights)
                      THEN GarbagePool ELSE {<<0, 0, 0>>} :
           all_lights' = SetupSpotlights(entdicts, all_lights, garbage)
    /\ pc' = StepAfter("SetupSpotlights")
    /\ trace' = Ran("SetupSpotlights", Len(all_lights))
    /\ UNCHANGED <<bsp, cfg, entdicts, all_suns, warned_once,
                   final_lightcount, log, fatal>>
    /\ UNCHANGED <<parseVars, styleVars, queryVars, bounceVars, subdivVars>>

Step_SetupSuns ==
    /\ pc = "SetupSuns"
    /\ all_suns' = SetupSuns(all_suns, cfg)
    /\ pc' = StepAfter("SetupSuns")
    /\ trace' = Ran("SetupSuns", 0)
    /\ UNCHANGED <<bsp, cfg, entdicts, all_lights, warned_once,
                   final_lightcount, log, fatal>>
    /\ UNCHANGED <<parseVars, styleVars, queryVars, bounceVars, subdivVars>>

Step_SetupSkyDome ==
    /\ pc = "SetupSkyDome"
    /\ all_suns' = SetupSkyDome(all_suns, cfg)
    /\ pc' = StepAfter("SetupSkyDome")
    /\ trace' = Ran("SetupSkyDome", 0)
    /\ UNCHANGED <<bsp, cfg, entdicts, all_lights, warned_once,
                   final_lightcount, log, fatal>>
    /\ UNCHANGED <<parseVars, styleVars, queryVars, bounceVars, subdivVars>>

Step_FixLightsOnFaces ==
    /\ pc = "FixLightsOnFaces"
    /\ \E r \in {FixLightsOnFaces(bsp.world, all_lights)} :
           /\ all_lights' = r.lights
           /\ log' = log \o r.log
    /\ pc' = StepAfter("FixLightsOnFaces")
    /\ trace' = Ran("FixLightsOnFaces", Len(all_lights))
    /\ UNCHANGED <<bsp, cfg, entdicts, all_suns, warned_once,
                   final_lightcount, fatal>>
    /\ UNCHANGED <<parseVars, styleVars, queryVars, bounceVars, subdivVars>>

Step_SetupLightLeafnums ==
    /\ pc = "SetupLightLeafnums"
    /\ all_lights' = SetupLightLeafnums(bsp.world, all_lights)
    /\ pc' = StepAfter("SetupLightLeafnums")
    /\ trace' = Ran("SetupLightLeafnums", Len(all_lights))
    /\ UNCHANGED <<bsp, cfg, entdicts, all_suns, warned_once,
                   final_lightcount, log, fatal>>
    /\ UNCHANGED <<parseVars, styleVars, queryVars, bounceVars, subdivVars>>

\* assert(final_lightcount == all_lights.size())
Step_FinalAssert ==
    /\ pc = "assert"
    /\ pc' = IF final_lightcount = Len(all_lights) THEN "done" ELSE "fatal"
    /\ fatal' = IF final_lightcount = Len(all_lights) THEN "none"
                ELSE "Assertion failed: final_lightcount == all_lights.size()"
    /\ UNCHANGED <<bsp, cfg, entdicts, all_lights, all_suns, warned_once,
                   final_lightcount, log, trace>>
    /\ UNCHANGED <<parseVars, styleVars, queryVars, bounceVars, subdivVars>>

\* mutant: a block is also written for every generated light
WriteEntitiesToString_WithGenerated(dicts, lights) ==
    EntData_Write(dicts \o
        [n \in 1..Len(SelectSeq(lights, LAMBDA l : l.generated)) |->
            dicts[SelectSeq(lights, LAMBDA l : l.generated)[n].epairs]])

\* WriteEntitiesToString: the text that replaces bsp->dentdata
WriteEntitiesToString(dicts, lights) == EntData_Write(dicts)

\* the caller of SetupLights rewrites the entity lump afterwards
Step_WriteEntitiesToString ==
    /\ pc = "done"
    /\ bsp' = [bsp EXCEPT !.dentdata = WriteEntitiesToString(entdicts,
                                                             all_lights)]
    /\ pc' = "written"
    /\ UNCHANGED <<cfg, entdicts, all_lights, all_suns, warned_once,
                   final_lightcount, log, fatal, trace>>
    /\ UNCHANGED <<parseVars, styleVars, queryVars, bounceVars, subdivVars>>

NextLight ==
    \/ Step_LoadEntities
    \/ Step_MakeSurfaceLights
    \/ Step_JitterEntities
    \/ Step_MatchTargets
    \/ Step_SetupSpotlights
    \/ Step_SetupSuns
    \/ Step_SetupSkyDome
    \/ Step_FixLightsOnFaces
    \/ Step_SetupLightLeafnums
    \/ Step_FinalAssert
    \/ Step_WriteEntitiesToString

(***************************************************************************)
(* Cases for the light pipeline: one small world and a pool of entities    *)
(***************************************************************************)
MaxEnts == 2

\* A wall x = 0 with solid behind it; in front of it air above z = -64 and
\* water below.  Face 0 (texture "T", 32 x 16 units) lies on the wall, face 1
\* (texture "*w", 8 x 8) on the water surface, face 2 is face 0 seen from
\* a model that has no modelinfo.
World1 ==
    [ dplanes |-> << [normal |-> <<1, 0, 0>>, dist |-> 0, type |-> PLANE.X],
                     [normal |-> <<0, 0, 1>>, dist |-> -640, type |-> PLANE.Z] >>,
      dnodes |-> << [planenum |-> 0, children |-> <<1, -1>>],
                    [planenum |-> 1, children |-> <<-3, -2>>] >>,
      headnode |-> 0,
      game |-> "quake",
      mins |-> <<-Fixed(10), 0, -Fixed(100)>>,
      maxs |-> <<Fixed(100), Fixed(100), Fixed(100)>>,
      dleafs |-> << [contents |-> CONTENTS.SOLID, firstmarksurface |-> 0,
                     nummarksurfaces |-> 0],
                    [contents |-> CONTENTS.WATER, firstmarksurface |-> 0,
                     nummarksurfaces |-> 1],
                    [contents |-> CONTENTS.EMPTY, firstmarksurface |-> 1,
                     nummarksurfaces |-> 4] >>,
      dmarksurfaces |-> <<1, 0, 2, 1, 0>>,
      dfaces |-> << [planenum |-> 0, side |-> 0, firstedge |-> 0,
                     numedges |-> 4, texinfo |-> 0],
                    [planenum |-> 1, side |-> 0, firstedge |-> 4,
                     numedges |-> 4, texinfo |-> 1],
                    [planenum |-> 0, side |-> 1, firstedge |-> 0,
                     numedges |-> 4, texinfo |-> 0] >>,
      dsurfedges |-> <<1, 2, 3, 4, -5, 6, 7, 8>>,
      dedges |-> << <<0, 0>>, <<0, 1>>, <<1, 2>>, <<2, 3>>, <<3, 0>>,
                    <<5, 4>>, <<5, 6>>, <<6, 7>>, <<7, 4>> >>,
      dvertexes |-> << <<0, 0, 0>>, <<0, 320, 0>>, <<0, 320, 160>>,
                       <<0, 0, 160>>,
                       <<80, 0, -640>>, <<160, 0, -640>>, <<160, 80, -640>>,
                       <<80, 80, -640>> >>,
      texinfo |-> << [miptex |-> 0, texture |-> <<>>],
                     [miptex |-> 1, texture |-> <<>>] >>,
      dtex |-> << [name |-> <<84>>], [name |-> <<42, 119>>] >>,
      drgbatexdata |-> <<>>,
      modelinfo |-> << [null |-> FALSE, offset |-> <<0, 0, 0>>],
                       [null |-> FALSE, offset |-> <<0, 0, 0>>],
                       [null |-> TRUE, offset |-> <<0, 0, 0>>] >> ]

\* "16 8 8", in the air; "-16 8 8", deep in the wall; "-1 8 8", in the wall
\* one unit from its face; "32 8 8"
At == [ air  |-> <<49, 54, 32, 56, 32, 56>>,
        wall |-> <<45, 49, 54, 32, 56, 32, 56>>,
        skin |-> <<45, 49, 32, 56, 32, 56>>,
        far  |-> <<51, 50, 32, 56, 32, 56>> ]

LightAt(where) == DictSet(Classed(K.light), K.origin, where)

\* the entities a map of the pool is made of
EntPool ==
    { LightAt(At.air),
      LightAt(At.wall),
      LightAt(At.skin),
      \* a light aimed at "t", and one aimed at a name no entity has
      DictSet(LightAt(At.air), K.target, <<116>>),
      DictSet(LightAt(At.air), K.target, <<122>>),
      \* two targets named "t", the second without an origin
      DictSet(DictSet(Classed(K.info_null), K.targetname, <<116>>),
              K.origin, At.far),
      DictSet(Classed(K.info_null), K.targetname, <<116>>),
      \* a switchable light named "t" that is aimed at "t"
      DictSet(DictSet(LightAt(At.air), K.targetname, <<116>>),
              K.target, <<116>>),
      \* a jittered light: _samples 3, _deviance 1
      DictSet(DictSet(LightAt(At.air), K.x_samples, <<51>>),
              K.x_deviance, <<49>>),
      \* surface-light templates for "T", for "t" (jittered twice, spotlit)
      \* and for "*w" (this one inside the wall)
      DictSet(LightAt(At.air), K.x_surface, <<84>>),
      DictSet(DictSet(DictSet(DictSet(LightAt(At.air), K.x_surface, <<116>>),
                              K.x_samples, <<50>>), K.x_deviance, <<49>>),
              K.x_surface_spotlight, <<49>>),
      DictSet(LightAt(At.skin), K.x_surface, <<42, 119>>) }

\* the command lines: defaults, -surflight_subdivide 16, -nolights
LightSettings ==
    { DefaultCfg,
      [DefaultCfg EXCEPT !.surflight_subdivide = Fixed(16)],
      [DefaultCfg EXCEPT !.nolights = TRUE] }

InitLight ==
    \E es \in SeqsUpTo(EntPool, MaxEnts), settings \in LightSettings :
        PipeStart([dentdata |-> EntData_Write(<<Worldspawn>> \o es),
                   world |-> World1], settings)

SpecLight == InitLight /\ [][NextLight]_vars

(***************************************************************************)
(* Claims on the light pipeline                                            *)
(***************************************************************************)
\* the intensity CheckEntityFields left a light with, recomputed from the
\* dict the light points to
LoadedLight(entity) ==
    CheckEntityFields(ConstructLight(entity.epairs, entdicts[entity.epairs]),
                      cfg, TRUE).entity.light

\* C5 as stated: when MakeSurfaceLights has returned, every entry of
\* all_lights whose dict has a non-empty _surface has intensity 0, the
\* entries MakeSurfaceLights appended included.
C5_SurfaceEntriesDark ==
    pc = "JitterEntities" =>
        \A n \in 1..Len(all_lights) :
            IsTemplate(entdicts, all_lights[n])
            => all_lights[n].light = RatZero

\* C5 amended: when MakeSurfaceLights has returned, every entry of
\* all_lights that LoadEntities built from a dict with a non-empty _surface
\* (generated = false) has intensity 0, and every entry MakeSurfaceLights
\* appended (generated = true) carries the non-zero intensity its template
\* had before it was cleared.
C5_TemplatesDarkCopiesLit ==
    pc = "JitterEntities" =>
        \A n \in 1..Len(all_lights) :
            IsTemplate(entdicts, all_lights[n])
            => IF all_lights[n].generated
               THEN /\ all_lights[n].light # RatZero
                    /\ all_lights[n].light = LoadedLight(all_lights[n])
               ELSE all_lights[n].light = RatZero

\* a template was cleared and a surface light made from it is lit
C5_Witness ==
    /\ pc = "JitterEntities"
    /\ \E m, n \in 1..Len(all_lights) :
          /\ IsTemplate(entdicts, all_lights[m])
          /\ ~all_lights[m].generated
          /\ all_lights[m].light = RatZero
          /\ all_lights[n].generated
          /\ all_lights[n].epairs = all_lights[m].epairs
          /\ all_lights[n].light = Rat(DEFAULTLIGHTLEVEL, 1)

AfterMatchTargets ==
    pc \in {"SetupSpotlights", "SetupSuns", "SetupSkyDome", "FixLightsOnFaces",
            "SetupLightLeafnums", "assert", "done"}

UnmatchedWarnings ==
    Len(SelectSeq(log, LAMBDA line :
                      line = "WARNING: entity has unmatched target"))

\* C6: once MatchTargets has run, a light with a non-empty target refers to
\* the first dict in entdicts whose targetname is that target when there is
\* one, and to none when there is not; every light without a match has
\* produced one warning, and the pipeline went on (no fatal error, all
\* lights handled).
C6_TargetsResolved ==
    AfterMatchTargets =>
        /\ fatal = "none"
        /\ \A n \in 1..Len(all_lights) :
             LET targetstr == EntDict_StringForKey(
                                  entdicts[all_lights[n].epairs], K.target)
                 named == { i \in 1..Len(entdicts) :
                              EntDict_StringForKey(entdicts[i], K.targetname)
                                  = targetstr }
             IN  IF targetstr = <<>> THEN all_lights[n].targetent = 0
                 ELSE IF named = {} THEN all_lights[n].targetent = 0
                 ELSE /\ all_lights[n].targetent \in named
                      /\ \A i \in named : all_lights[n].targetent <= i
        /\ UnmatchedWarnings
             = Cardinality({ n \in 1..Len(all_lights) :
                               /\ EntDict_StringForKey(
                                      entdicts[all_lights[n].epairs], K.target)
                                    # <<>>
                               /\ all_lights[n].targetent = 0 })

\* the pipeline finished with a light bound to the first of two dicts that
\* carry its target's name
C6_Witness ==
    /\ pc = "done"
    /\ \E n \in 1..Len(all_lights) :
         /\ all_lights[n].targetent # 0
         /\ \E i \in 1..Len(entdicts) :
              /\ i > all_lights[n].targetent
              /\ EntDict_StringForKey(entdicts[i], K.targetname)
                   = EntDict_StringForKey(entdicts[all_lights[n].epairs],
                                          K.target)

\* the pipeline finished after a light was left unbound with its warning
\* and a later light was bound
C6_UnmatchedThenMatched ==
    /\ pc = "done"
    /\ UnmatchedWarnings = 1
    /\ \E m, n \in 1..Len(all_lights) :
         /\ m < n
         /\ all_lights[m].targetent = 0
         /\ EntDict_StringForKey(entdicts[all_lights[m].epairs],
                                 K.target) # <<>>
         /\ all_lights[n].targetent # 0

AfterJitterEntities ==
    pc \in {"MatchTargets", "SetupSpotlights", "SetupSuns", "SetupSkyDome",
            "FixLightsOnFaces", "SetupLightLeafnums", "assert"}

\* what tells one entry of all_lights from another through the steps that
\* change lights in place
Identity(entity) ==
    [epairs |-> entity.epairs, generated |-> entity.generated,
     style |-> entity.style, light |-> entity.light,
     samples |-> entity.samples]

\* C7: every step taken after JitterEntities has recorded final_lightcount
\* (MatchTargets, SetupSpotlights, SetupSuns, SetupSkyDome, FixLightsOnFaces,
\* SetupLightLeafnums and the closing assertion) leaves all_lights with the
\* same entries in the same order, so its length stays final_lightcount and
\* the assertion does not fail.
C7_CountStable ==
    [][AfterJitterEntities =>
          /\ Len(all_lights') = Len(all_lights)
          /\ \A n \in 1..Len(all_lights) :
                Identity(all_lights'[n]) = Identity(all_lights[n])
          /\ final_lightcount' = final_lightcount
          /\ final_lightcount' = Len(all_lights')
          /\ fatal' = "none"
          /\ pc' # "fatal"]_vars

\* the assertion passed on a list that had grown before the count was taken
\* and whose lights were changed in place after it
C7_Witness ==
    /\ pc = "done"
    /\ final_lightcount = Len(all_lights)
    /\ Len(all_lights) > trace[2].seen
    /\ \E n \in 1..Len(all_lights) :
          all_lights[n].generated /\ all_lights[n].leaf >= 0
    /\ \E n \in 1..Len(all_lights) : all_lights[n].leaf = 0

StepsRun == [n \in 1..Len(trace) |-> trace[n].step]

\* C8: the steps run once each in the order LoadEntities, MakeSurfaceLights,
\* JitterEntities, MatchTargets, SetupSpotlights, SetupSuns, SetupSkyDome,
\* FixLightsOnFaces, SetupLightLeafnums; MatchTargets, SetupSpotlights,
\* FixLightsOnFaces and SetupLightLeafnums each run over the whole list,
\* appended lights included, and when the pipeline is done every appended
\* light shows what they do: its target is bound, its spotlight cone is
\* set, it lies outside solid unless a warning was logged or it is dark,
\* and its leaf is the one that holds its origin.
C8_StepsInOrder ==
    /\ (pc \notin {"idle", "fatal"}) =>
          /\ Len(trace) <= Len(StepOrder)
          /\ StepsRun = SubSeq(StepOrder, 1, Len(trace))
          /\ pc = IF Len(trace) < Len(StepOrder)
                  THEN StepOrder[Len(trace) + 1] ELSE pc
          /\ pc \in {"assert", "done", "written"}
                <=> Len(trace) = Len(StepOrder)
          /\ \A n \in 1..Len(trace) :
                trace[n].step \in {"MatchTargets", "SetupSpotlights",
                                   "FixLightsOnFaces", "SetupLightLeafnums"}
                => /\ trace[n].seen = final_lightcount
                   /\ trace[n].seen = Len(all_lights)
    /\ pc = "done" =>
          \A n \in 1..Len(all_lights) :
             LET e == all_lights[n]
                 targetstr == EntDict_StringForKey(entdicts[e.epairs],
                                                   K.target)
             IN  e.generated =>
                   /\ (/\ targetstr # <<>>
                       /\ \E i \in 1..Len(entdicts) :
                            EntDict_StringForKey(entdicts[i], K.targetname)
                              = targetstr)
                      => e.targetent # 0
                   /\ e.spotlight => e.spotfalloff.set /\ e.spotfalloff2.set
                   /\ \/ e.light = RatZero
                      \/ ~Light_PointInSolid(bsp.world, e.origin)
                      \/ \E k \in 1..Len(log) :
                           log[k] = "WARNING: couldn't nudge light in solid"
                   /\ e.leaf = Light_PointInLeaf(bsp.world, e.origin)

\* the pipeline is done, all nine steps ran, the list grew in
\* MakeSurfaceLights and in JitterEntities, and an appended light has its
\* cone and its leaf
C8_Witness ==
    /\ pc = "done"
    /\ Len(trace) = Len(StepOrder)
    /\ trace[2].seen < trace[3].seen
    /\ trace[3].seen < trace[4].seen
    /\ \E n \in 1..Len(all_lights) :
          /\ all_lights[n].generated
          /\ all_lights[n].spotfalloff.set
          /\ all_lights[n].leaf = 2

RECURSIVE ExtraSamples(_, _)
\* sum of s_k - 1 over the first i lights
ExtraSamples(lights, i) ==
    IF i = 0 THEN 0
    ELSE ExtraSamples(lights, i - 1) + (lights[i].samples - 1)

\* C9: JitterEntities on n lights with sample counts s_1..s_n leaves the
\* first n entries as they were, appends sum(s_i - 1) entries and no more
\* (no duplicate is jittered again); the duplicates of light i follow those
\* of the lights before it, have generated = true, the style of light i and
\* all its other fields but the origin, which lies within the deviance of
\* the source's.
C9_JitterDuplicates ==
    [][pc = "JitterEntities" =>
          LET n == Len(all_lights) IN
          /\ \A i \in 1..n : all_lights[i].samples >= 1
          /\ Len(all_lights') = n + ExtraSamples(all_lights, n)
          /\ SubSeq(all_lights', 1, n) = all_lights
          /\ \A i \in 1..n :
               \A j \in 1..(all_lights[i].samples - 1) :
                  LET d == all_lights'[n + ExtraSamples(all_lights, i - 1) + j]
                      src == all_lights[i]
                  IN  /\ d.generated
                      /\ d.style = src.style
                      /\ [d EXCEPT !.origin = src.origin]
                           = [src EXCEPT !.generated = TRUE]
                      /\ \A c \in 1..3 :
                           Abs(d.origin[c] - src.origin[c]) <= src.deviance
    ]_vars

\* JitterEntities has returned: a light with _samples 3 is followed by its
\* two duplicates and the list holds nothing else
C9_Witness ==
    /\ pc = "MatchTargets"
    /\ \E n \in 1..Len(all_lights) :
          /\ ~all_lights[n].generated
          /\ all_lights[n].samples = 3
          /\ Cardinality({ m \in 1..Len(all_lights) :
                             /\ all_lights[m].generated
                             /\ all_lights[m].epairs = all_lights[n].epairs
                             /\ all_lights[m].style = all_lights[n].style })
               = 2
          /\ Len(all_lights) = trace[3].seen + 2

(***************************************************************************)
(* Cases for the sky dome: a map of worldspawn alone                       *)
(***************************************************************************)
MaxSunSamples == 16

\* "100", "-5", "0.5" and "0"
Sunlight2Texts == { <<49, 48, 48>>, <<45, 53>>, <<48, 46, 53>>, <<48>> }

\* "50" and "-5"
Sunlight3Texts == { <<53, 48>>, <<45, 53>> }

WithKey(dict, key, texts) ==
    {dict} \cup { DictSet(dict, key, t) : t \in texts }

\* worldspawn with or without _sunlight2, _sunlight3, _sunlight "100" and
\* _sunlight_penumbra "2"
SkyWorldspawns ==
    UNION { UNION { UNION { WithKey(d3, K.x_sunlight_penumbra, {<<50>>}) :
                            d3 \in WithKey(d2, K.x_sunlight,
                                           {<<49, 48, 48>>}) } :
                    d2 \in WithKey(d1, K.x_sunlight3, Sunlight3Texts) } :
            d1 \in WithKey(Worldspawn, K.x_sunlight2, Sunlight2Texts) }

\* -sunsamples n, with the lower hemisphere coloured apart from the upper
SkySettings ==
    { [DefaultCfg EXCEPT !.sunsamples = n,
                         !.sunlight2_color = <<255, 255, 255>>,
                         !.sunlight3_color = <<255, 0, 0>>,
                         !.sunlight_color = <<0, 0, 255>>] :
      n \in 1..MaxSunSamples }

InitSky ==
    \E w \in SkyWorldspawns, settings \in SkySettings :
        PipeStart([dentdata |-> EntData_Write(<<w>>), world |-> NoWorld],
                  settings)

SpecSky == InitSky /\ [][NextLight]_vars

RECURSIVE SunlightSum(_, _)
\* the intensities of the first n suns, added up
SunlightSum(suns, n) ==
    IF n = 0 THEN RatZero
    ELSE RatAdd(SunlightSum(suns, n - 1), suns[n].sunlight)

\* what the claim says of one hemisphere: total is its setting, colour
\* tells its suns among those appended, steps is elevationSteps
HemisphereAsStated(appended, total, colour, steps) ==
    LET mine == SelectSeq(appended, LAMBDA sun : sun.sunlight_color = colour)
        N == (4 * steps) * steps + 1
    IN  IF RatLess(RatZero, total)
        THEN /\ Len(mine) = N
             /\ \A n \in 1..N : mine[n].sunlight = RatDivInt(total, N)
             /\ SunlightSum(mine, N) = total
        ELSE Len(mine) = 0

\* C10: SetupSkyDome keeps the suns that were there and, with
\* N = angleSteps * elevationSteps + 1, appends N suns of intensity L/N
\* (summing to L) for the upper hemisphere when the _sunlight2 total L is
\* positive and none when it is not; the same for _sunlight3 and the lower
\* hemisphere; when neither is positive nothing is appended.
C10_DomeCounts ==
    [][pc = "SetupSkyDome" =>
          LET before == Len(all_suns)
              appended == SubSeq(all_suns', before + 1, Len(all_suns'))
              steps == DomeIterations(cfg.sunsamples) - 1
              upper == SelectSeq(appended, LAMBDA sun :
                           sun.sunlight_color = cfg.sunlight2_color)
              lower == SelectSeq(appended, LAMBDA sun :
                           sun.sunlight_color = cfg.sunlight3_color)
          IN  /\ SubSeq(all_suns', 1, before) = all_suns
              /\ HemisphereAsStated(appended, cfg.sunlight2,
                                    cfg.sunlight2_color, steps)
              /\ HemisphereAsStated(appended, cfg.sunlight3,
                                    cfg.sunlight3_color, steps)
              /\ Len(appended) = Len(upper) + Len(lower)
              /\ (~RatLess(RatZero, cfg.sunlight2)
                  /\ ~RatLess(RatZero, cfg.sunlight3))
                 => all_suns' = all_suns
    ]_vars

\* SetupSkyDome has returned with 17 upper suns of 100/17 each after the
\* sun of SetupSuns, and no lower sun
C10_Witness ==
    /\ pc = "FixLightsOnFaces"
    /\ cfg.sunlight2 = Rat(100, 1)
    /\ ~RatLess(RatZero, cfg.sunlight3)
    /\ cfg.sunsamples = 16
    /\ Len(all_suns) = 18
    /\ \A n \in 2..18 : /\ all_suns[n].sunlight = Rat(100, 17)
                        /\ all_suns[n].sunlight_color = cfg.sunlight2_color

\* SetupSkyDome has returned with both hemispheres lit: 5 suns of 1/10 above
\* and 5 suns of 10 below
C10_BothHemispheres ==
    /\ pc = "FixLightsOnFaces"
    /\ cfg.sunlight2 = Rat(1, 2)
    /\ cfg.sunlight3 = Rat(50, 1)
    /\ Len(SelectSeq(all_suns, LAMBDA sun :
              sun.sunlight_color = cfg.sunlight2_color
              /\ sun.sunlight = Rat(1, 10))) = 5
    /\ Len(SelectSeq(all_suns, LAMBDA sun :
              sun.sunlight_color = cfg.sunlight3_color
              /\ sun.sunlight = Rat(10, 1))) = 5

\* the suns of one colour among those in all_suns
SunsColoured(colour) ==
    SelectSeq(all_suns, LAMBDA sun : sun.sunlight_color = colour)

SkyDomeDone ==
    pc \in {"FixLightsOnFaces", "SetupLightLeafnums", "assert", "done"}

\* C11: once SetupSkyDome has run, the stored directions of all suns made
\* for _sunlight2, the final vertical one included, have the same sign of
\* Z; so have those of all suns made for _sunlight3; and the two signs are
\* opposite.
C11_SameHemisphere ==
    SkyDomeDone =>
        LET upper == SunsColoured(cfg.sunlight2_color)
            lower == SunsColoured(cfg.sunlight3_color)
        IN  /\ \A m, n \in 1..Len(upper) : upper[m].sunvec.z = upper[n].sunvec.z
            /\ \A m, n \in 1..Len(lower) : lower[m].sunvec.z = lower[n].sunvec.z
            /\ \A m \in 1..Len(upper) : \A n \in 1..Len(lower) :
                  upper[m].sunvec.z = -lower[n].sunvec.z

\* SetupSkyDome has run for _sunlight2 alone: the grid suns are stored with
\* positive Z and the vertical sun, the last one, with negative Z
C11_VerticalSunBelow ==
    /\ SkyDomeDone
    /\ SunsColoured(cfg.sunlight3_color) = <<>>
    /\ LET upper == SunsColoured(cfg.sunlight2_color)
       IN  /\ Len(upper) = 17
           /\ \A n \in 1..16 : /\ upper[n].sunvec.kind = "dome"
                               /\ upper[n].sunvec.z = 1
           /\ upper[17].sunvec.kind = "vertical"
           /\ upper[17].sunvec.z = -1

\* round(sqrt(n / 4)) for the exact quotient n / 4, halves rounded away
\* from zero: the k with k - 1/2 <= sqrt(n / 4) < k + 1/2
RoundSqrtOfQuarters(n) ==
    CHOOSE k \in 0..(n + 1) :
        /\ n < (2 * k + 1) * (2 * k + 1)
        /\ (k = 0 \/ (2 * k - 1) * (2 * k - 1) <= n)

\* the suns a hemisphere gets when SetupSkyDome runs with this iteration
\* count
SunsForIterations(iterations) ==
    (4 * (iterations - 1)) * (iterations - 1) + 1

\* C12 as stated: the iteration count SetupSkyDome uses for sunsamples >= 1
\* is max(2, round(sqrt(q)) + 1) for the exact quotient
\* q = (sunsamples - 1) / 4, seen in the number of suns it makes for a
\* positive _sunlight2.
C12_IterationsExactQuotient ==
    (SkyDomeDone /\ RatLess(RatZero, cfg.sunlight2)) =>
        Len(SunsColoured(cfg.sunlight2_color))
          = SunsForIterations(
                Max(2, RoundSqrtOfQuarters(cfg.sunsamples - 1) + 1))

\* C12 amended: the iteration count SetupSkyDome uses for sunsamples >= 1
\* is max(2, round(sqrt(q)) + 1) for the truncated integer quotient
\* q = floor((sunsamples - 1) / 4), seen in the number of suns it makes
\* for a positive _sunlight2.
C12_IterationsTruncatedQuotient ==
    (SkyDomeDone /\ RatLess(RatZero, cfg.sunlight2)) =>
        Len(SunsColoured(cfg.sunlight2_color))
          = SunsForIterations(
                Max(2, RoundSqrtOfQuarters(
                           4 * ((cfg.sunsamples - 1) \div 4)) + 1))

\* SetupSkyDome has run with sunsamples 16 and has made 17 suns for
\* _sunlight2 (3 iterations, 2 elevation steps, 8 angle steps)
C12_Witness ==
    /\ SkyDomeDone
    /\ cfg.sunsamples = 16
    /\ RatLess(RatZero, cfg.sunlight2)
    /\ Len(SunsColoured(cfg.sunlight2_color)) = 17

\* SetupSkyDome has run with sunsamples 11, where the exact quotient 2.5
\* asks for 3 iterations, and has made the 5 suns of 2 iterations
C12_TruncationShows ==
    /\ SkyDomeDone
    /\ cfg.sunsamples = 11
    /\ RatLess(RatZero, cfg.sunlight2)
    /\ Len(SunsColoured(cfg.sunlight2_color)) = 5

\* the six candidates in the order they are tried: origin - 2X, + 2X, - 2Y,
\* + 2Y, - 2Z, + 2Z
NudgeCandidates(origin) ==
    << VecAdd(origin, <<-Fixed(2), 0, 0>>), VecAdd(origin, <<Fixed(2), 0, 0>>),
       VecAdd(origin, <<0, -Fixed(2), 0>>), VecAdd(origin, <<0, Fixed(2), 0>>),
       VecAdd(origin, <<0, 0, -Fixed(2)>>), VecAdd(origin, <<0, 0, Fixed(2)>>) >>

InSolid(point) == Light_PointInSolid(bsp.world, point)

\* the lights FixLightsOnFaces warns about: lit, in solid, and so are all
\* six candidates
CannotNudge(lights) ==
    { n \in 1..Len(lights) :
        /\ lights[n].light # RatZero
        /\ InSolid(lights[n].origin)
        /\ \A i \in 1..6 : InSolid(NudgeCandidates(lights[n].origin)[i]) }

\* C13: FixLightsOnFaces leaves a light of intensity 0 and a light not in
\* solid where they are; moves a lit light in solid to the first of the
\* six candidates that is not in solid; leaves it and logs a warning when
\* all six are in solid; changes nothing else of a light.  So a light that
\* moved is outside solid and 2 units from where it was along one axis.
C13_NudgeOutOfSolid ==
    [][pc = "FixLightsOnFaces" =>
          /\ Len(all_lights') = Len(all_lights)
          /\ \A n \in 1..Len(all_lights) :
               LET old == all_lights[n].origin
                   new == all_lights'[n].origin
                   cand == NudgeCandidates(old)
                   free == { i \in 1..6 : ~InSolid(cand[i]) }
               IN  /\ all_lights'[n] = [all_lights[n] EXCEPT !.origin = new]
                   /\ IF all_lights[n].light = RatZero \/ ~InSolid(old)
                      THEN new = old
                      ELSE IF free = {} THEN new = old
                      ELSE \E i \in free : /\ \A j \in free : i <= j
                                           /\ new = cand[i]
                   /\ new # old =>
                        /\ ~InSolid(new)
                        /\ Cardinality({ c \in 1..3 : new[c] # old[c] }) = 1
                        /\ \E c \in 1..3 : Abs(new[c] - old[c]) = Fixed(2)
          /\ Len(log') = Len(log) + Cardinality(CannotNudge(all_lights))
          /\ \A k \in (Len(log) + 1)..Len(log') :
               log'[k] = "WARNING: couldn't nudge light in solid"
    ]_vars

\* FixLightsOnFaces has run on a light one unit inside the wall, which now
\* stands one unit in front of it (at +2X, the second candidate), and on a
\* dark template at the same place, which has not moved
C13_Witness ==
    /\ pc = "SetupLightLeafnums"
    /\ \E m, n \in 1..Len(all_lights) :
          /\ all_lights[m].light # RatZero
          /\ all_lights[m].origin = <<Fixed(1), Fixed(8), Fixed(8)>>
          /\ all_lights[n].light = RatZero
          /\ all_lights[n].origin = <<-Fixed(1), Fixed(8), Fixed(8)>>

\* FixLightsOnFaces has run on a light deep in the wall: it is where it was
\* and the warning is in the log
C13_WarnedInSolid ==
    /\ pc = "SetupLightLeafnums"
    /\ \E k \in 1..Len(log) : log[k] = "WARNING: couldn't nudge light in solid"
    /\ \E n \in 1..Len(all_lights) :
          /\ all_lights[n].light # RatZero
          /\ all_lights[n].origin = <<-Fixed(16), Fixed(8), Fixed(8)>>

(***************************************************************************)
(* common/bsputils.cc: bounds-checked accessors and the point-in-solid     *)
(* test of the shared BSP utilities.  A result is [outcome, value];        *)
(* outcome is "value", "null" (nullptr), "assert" (Q_assert failed) or     *)
(* "fatal" (Error).                                                        *)
(***************************************************************************)
Returned(v) == [outcome |-> "value", value |-> v]

NullPtr == [outcome |-> "null", value |-> 0]

AssertFailed == [outcome |-> "assert", value |-> 0]

CorruptLeaf == [outcome |-> "fatal", value |-> "Corrupt BSP: leaf is out of bounds"]

\* what table[i] gives without a check: the element, or whatever lies
\* outside the table
Unchecked(table, i) ==
    IF i >= 0 /\ i < Len(table) THEN Returned(Lump(table, i))
    ELSE Returned("out of bounds")

\* mutant: the leaf number is not checked
BSP_GetLeaf_Unchecked(world, leafnum) == Unchecked(world.dleafs, leafnum)

\* mutant: a texinfo number past the table is not caught
BSP_GetTexinfo_NoUpperCheck(world, texinfo) ==
    IF texinfo < 0 THEN NullPtr ELSE Unchecked(world.texinfo, texinfo)

BSP_GetNode(world, nodenum) ==
    IF nodenum >= 0 /\ nodenum < Len(world.dnodes)
    THEN Returned(Lump(world.dnodes, nodenum)) ELSE AssertFailed

BSP_GetLeaf(world, leafnum) ==
    IF leafnum < 0 \/ leafnum >= Len(world.dleafs) THEN CorruptLeaf
    ELSE Returned(Lump(world.dleafs, leafnum))

BSP_GetLeafFromNodeNum(world, nodenum) == BSP_GetLeaf(world, -1 - nodenum)

BSP_GetPlane(world, planenum) ==
    IF planenum >= 0 /\ planenum < Len(world.dplanes)
    THEN Returned(Lump(world.dplanes, planenum)) ELSE AssertFailed

BSP_GetFace(world, fnum) ==
    IF fnum >= 0 /\ fnum < Len(world.dfaces)
    THEN Returned(Lump(world.dfaces, fnum)) ELSE AssertFailed

BSP_GetTexinfo(world, texinfo) ==
    IF texinfo < 0 THEN NullPtr
    ELSE IF texinfo >= Len(world.texinfo) THEN NullPtr
    ELSE Returned(Lump(world.texinfo, texinfo))

Vertex_GetPos(world, num) ==
    IF num >= 0 /\ num < Len(world.dvertexes)
    THEN Returned(Lump(world.dvertexes, num)) ELSE AssertFailed

\* 1, the solid bit of a Quake II leaf's contents
Q2_CONTENTS_SOLID == 1

RECURSIVE BspUtils_PointInSolid_r(_, _, _)
\* Light_PointInSolid_r of bsputils.cc.  result: [outcome, value]
BspUtils_PointInSolid_r(world, nodenum, point) ==
    IF nodenum < 0 THEN
        With(BSP_GetLeafFromNodeNum(world, nodenum), LAMBDA leaf :
        IF leaf.outcome # "value" THEN leaf
        ELSE IF world.game = "quake2"
        THEN Returned((leaf.value.contents \div Q2_CONTENTS_SOLID) % 2 = 1)
        ELSE Returned(leaf.value.contents \in {CONTENTS.SOLID, CONTENTS.SKY}))
    ELSE
        With(Plane_Dist(point, Lump(world.dplanes,
                                    Lump(world.dnodes, nodenum).planenum)),
             LAMBDA dist :
        IF dist > ON_EPSILON THEN
            BspUtils_PointInSolid_r(world,
                Lump(world.dnodes, nodenum).children[1], point)
        ELSE IF dist < -ON_EPSILON THEN
            BspUtils_PointInSolid_r(world,
                Lump(world.dnodes, nodenum).children[2], point)
        ELSE
            With(BspUtils_PointInSolid_r(world,
                     Lump(world.dnodes, nodenum).children[1], point),
                 LAMBDA front :
                 IF front.outcome # "value" \/ front.value THEN front
                 ELSE BspUtils_PointInSolid_r(world,
                          Lump(world.dnodes, nodenum).children[2], point)))

\* Light_PointInSolid of bsputils.cc for model 0: false outside the
\* model's bounds, else the descent through hull 0
Light_PointInWorld(world, point) ==
    IF \E i \in 1..3 : point[i] < world.mins[i] \/ point[i] > world.maxs[i]
    THEN Returned(FALSE)
    ELSE BspUtils_PointInSolid_r(world, world.headnode, point)

(***************************************************************************)
(* Cases for the BSP queries                                               *)
(***************************************************************************)
\* World1 with sky in place of the water
WorldSky ==
    [World1 EXCEPT !.dleafs[2].contents = CONTENTS.SKY]

\* World1 as a Quake II map: contents are bit flags (1 solid, 32 water)
WorldQ2 ==
    [World1 EXCEPT !.game = "quake2",
                   !.dleafs[1].contents = 1,
                   !.dleafs[2].contents = 32,
                   !.dleafs[3].contents = 0]

\* one face and the three places its texture name can come from; name
\* tables are absent (<<>>) or hold one entry.  "M", "R", "Q"
NameTables == { <<>>, << [name |-> <<>>] >>, << [name |-> <<77>>] >> }

RgbaTables == { <<>>, << [name |-> <<>>] >>, << [name |-> <<82>>] >> }

TexWorlds ==
    { [NoWorld EXCEPT
         !.dtex = names, !.drgbatexdata = rgba,
         !.texinfo = << [miptex |-> 0, texture |-> texture] >>,
         !.dfaces = << [planenum |-> 0, side |-> 0, firstedge |-> 0,
                        numedges |-> 0, texinfo |-> t] >>] :
      names \in NameTables, rgba \in RgbaTables,
      texture \in { <<>>, <<81>> }, t \in {-1, 0, 1} }

\* x from 16 units behind the wall to 16 in front of it, z from 16 above
\* the water plane (z = -64) to 16 below it, in steps down to 0.1
QueryPoints ==
    { <<x, Fixed(8), z>> :
        x \in {-Fixed(16), -2, -1, 0, 1, 2, Fixed(16)},
        z \in {-Fixed(80), -642, -641, -640, -639, -638, -Fixed(48)} }

QueryIndices == -2..9

AccessorNames ==
    { "BSP_GetNode", "BSP_GetLeaf", "BSP_GetLeafFromNodeNum", "BSP_GetPlane",
      "BSP_GetFace", "BSP_GetTexinfo", "Vertex_GetPos" }

CallAccessor(fn, world, i) ==
    IF fn = "BSP_GetNode" THEN BSP_GetNode(world, i)
    ELSE IF fn = "BSP_GetLeaf" THEN BSP_GetLeaf(world, i)
    ELSE IF fn = "BSP_GetLeafFromNodeNum" THEN BSP_GetLeafFromNodeNum(world, i)
    ELSE IF fn = "BSP_GetPlane" THEN BSP_GetPlane(world, i)
    ELSE IF fn = "BSP_GetFace" THEN BSP_GetFace(world, i)
    ELSE IF fn = "BSP_GetTexinfo" THEN BSP_GetTexinfo(world, i)
    ELSE Vertex_GetPos(world, i)

\* the table an accessor reads and the index it reads it at
AccessorTable(fn, world) ==
    IF fn = "BSP_GetNode" THEN world.dnodes
    ELSE IF fn \in {"BSP_GetLeaf", "BSP_GetLeafFromNodeNum"} THEN world.dleafs
    ELSE IF fn = "BSP_GetPlane" THEN world.dplanes
    ELSE IF fn = "BSP_GetFace" THEN world.dfaces
    ELSE IF fn = "BSP_GetTexinfo" THEN world.texinfo
    ELSE world.dvertexes

AccessorIndex(fn, i) == IF fn = "BSP_GetLeafFromNodeNum" THEN -1 - i ELSE i

InitBsp ==
    /\ ParseIdle
    /\ StyleIdle
    /\ PipeIdle
    /\ BounceIdle
    /\ SubdivIdle
    /\ q_bsp \in {World1, WorldSky, WorldQ2} \cup TexWorlds
    /\ q_call = [fn |-> "none", arg |-> 0, outcome |-> "none", value |-> 0]

Called(fn, arg, result) ==
    /\ q_call' = [fn |-> fn, arg |-> arg, outcome |-> result.outcome,
                  value |-> result.value]
    /\ UNCHANGED q_bsp
    /\ UNCHANGED <<parseVars, styleVars, pipeVars, bounceVars, subdivVars>>

\* the static Light_PointInSolid of light/entities.cc (Quake maps)
Query_PointInSolid ==
    /\ q_bsp.game = "quake"
    /\ Len(q_bsp.dnodes) > 0
    /\ \E point \in QueryPoints :
          Called("Light_PointInSolid", point,
                 Returned(Light_PointInSolid(q_bsp, point)))

Query_PointInWorld ==
    /\ Len(q_bsp.dnodes) > 0
    /\ \E point \in QueryPoints :
          Called("Light_PointInWorld", point, Light_PointInWorld(q_bsp, point))

Query_Accessor ==
    /\ q_bsp.game \in {"quake", "quake2"}
    /\ \E fn \in AccessorNames, i \in QueryIndices :
          Called(fn, i, CallAccessor(fn, q_bsp, i))

Query_TextureName ==
    /\ Len(q_bsp.dfaces) > 0
    /\ \E f \in 0..(Len(q_bsp.dfaces) - 1) :
          Called("Face_TextureName", f,
                 Returned(Face_TextureName(q_bsp, Lump(q_bsp.dfaces, f))))

NextBsp ==
    \/ Query_PointInSolid
    \/ Query_PointInWorld
    \/ Query_Accessor
    \/ Query_TextureName

SpecBsp == InitBsp /\ [][NextBsp]_vars

(***************************************************************************)
(* Claims on the BSP queries                                               *)
(***************************************************************************)
RECURSIVE ExactDescent(_, _, _)
\* the descent without tolerance: [leaf, margin], the leaf the point lies
\* in and its least distance to a plane passed on the way (0: the point
\* lies on a plane, so in no leaf's interior)
ExactDescent(world, nodenum, point) ==
    IF nodenum < 0 THEN [leaf |-> -1 - nodenum, margin |-> Fixed(9999)]
    ELSE
        LET dist == Plane_Dist(point, Lump(world.dplanes,
                                  Lump(world.dnodes, nodenum).planenum))
            rest == ExactDescent(world,
                        Lump(world.dnodes, nodenum).children[
                            IF dist >= 0 THEN 1 ELSE 2], point)
        IN  [rest EXCEPT !.margin = IF Abs(dist) < @ THEN Abs(dist) ELSE @]

PointQueries == {"Light_PointInSolid", "Light_PointInWorld"}

\* the leaf of q_bsp by number is solid as the claim words it
LeafIsSolid(leafnum) ==
    IF q_bsp.game = "quake2"
    THEN Lump(q_bsp.dleafs, leafnum).contents % 2 = 1
    ELSE Lump(q_bsp.dleafs, leafnum).contents = CONTENTS.SOLID

\* C14 as stated: the point-in-solid test returns false for every point
\* strictly inside a leaf that is not solid, whatever its distance to the
\* planes around the leaf.
C14_FalseInsideNonSolidLeaf ==
    q_call.fn \in PointQueries =>
        LET d == ExactDescent(q_bsp, q_bsp.headnode, q_call.arg)
        IN  (d.margin > 0 /\ ~LeafIsSolid(d.leaf))
            => (q_call.outcome = "value" /\ q_call.value = FALSE)

\* C14 amended: the point-in-solid test returns false for every point
\* that lies in a leaf that is neither solid nor (in a Quake map) sky and
\* is more than 0.1 units away from every plane passed on the descent to
\* that leaf.
C14_FalseClearOfPlanes ==
    q_call.fn \in PointQueries =>
        LET d == ExactDescent(q_bsp, q_bsp.headnode, q_call.arg)
        IN  (/\ d.margin > ON_EPSILON
             /\ ~LeafIsSolid(d.leaf)
             /\ (q_bsp.game = "quake"
                 => Lump(q_bsp.dleafs, d.leaf).contents # CONTENTS.SKY))
            => (q_call.outcome = "value" /\ q_call.value = FALSE)

\* the test said false for a point 0.2 units in front of the wall, in the
\* air
C14_Witness ==
    /\ q_call.fn \in PointQueries
    /\ q_call.arg = <<2, Fixed(8), -Fixed(48)>>
    /\ q_call.outcome = "value"
    /\ q_call.value = FALSE

\* the test said true for a point 0.1 units in front of the wall, in the
\* air
C14_TrueNearWall ==
    /\ q_call.fn \in PointQueries
    /\ q_call.arg = <<1, Fixed(8), -Fixed(48)>>
    /\ q_call.outcome = "value"
    /\ q_call.value = TRUE

\* the test said true for a point 16 units inside a sky leaf
C14_TrueInSky ==
    /\ q_call.fn \in PointQueries
    /\ q_bsp = WorldSky
    /\ q_call.arg = <<Fixed(16), Fixed(8), -Fixed(80)>>
    /\ q_call.outcome = "value"
    /\ q_call.value = TRUE

\* the index the last accessor call read its table at is outside the table
OutOfRange ==
    LET i == AccessorIndex(q_call.fn, q_call.arg)
    IN  i < 0 \/ i >= Len(AccessorTable(q_call.fn, q_bsp))

C19_TexinfoNull ==
    /\ q_call.fn = "BSP_GetTexinfo"
    /\ q_call.arg = Len(q_bsp.texinfo)
    /\ q_call.outcome = "null"

\* the three names of the face the last Face_TextureName call was about;
\* absent ones are empty
NamesOfFace ==
    LET face == Lump(q_bsp.dfaces, q_call.arg)
        known == face.texinfo >= 0 /\ face.texinfo < Len(q_bsp.texinfo)
        texinfo == Lump(q_bsp.texinfo, face.texinfo)
    IN  [ miptex |-> IF known /\ texinfo.miptex < Len(q_bsp.dtex)
                     THEN Lump(q_bsp.dtex, texinfo.miptex).name ELSE <<>>,
          rgba |-> IF known /\ texinfo.miptex < Len(q_bsp.drgbatexdata)
                   THEN Lump(q_bsp.drgbatexdata, texinfo.miptex).name
                   ELSE <<>>,
          texture |-> IF known THEN texinfo.texture ELSE <<>> ]

\* C20: Face_TextureName returns the first non-empty name among the miptex
\* name, the rgba-miptex name and the texinfo's texture string, and the
\* empty string only when all three are absent or empty.
C20_FirstNonEmptyName ==
    q_call.fn = "Face_TextureName" =>
        LET n == NamesOfFace
        IN  q_call.value = IF n.miptex # <<>> THEN n.miptex
                           ELSE IF n.rgba # <<>> THEN n.rgba
                           ELSE n.texture

\* Face_TextureName returned the empty string for a face whose rgba-miptex
\* entry has an empty name and whose texinfo has the texture string "Q"
C20_EmptyDespiteTexture ==
    /\ q_call.fn = "Face_TextureName"
    /\ q_call.value = <<>>
    /\ NamesOfFace.miptex = <<>>
    /\ Len(q_bsp.drgbatexdata) > 0
    /\ NamesOfFace.rgba = <<>>
    /\ NamesOfFace.texture = <<81>>

\* ---------------------------------------------------------------------
\* light/bounce.cc: the bounce-light generator
\*
\* A face of the pass is described by what the generator reads of it:
\*   shadow       ModelInfoForFace found a model and its shadow flag is set
\*   lightmapped  Face_IsLightmapped
\*   texname      Face_TextureName
\*   nobounce     the TEX_EXFLAG_NOBOUNCE bit of its extended texinfo flags
\*   facearea     winding.area(), in tenths of a square unit
\*   patches      the diced windings, each with its area (tenths) and the
\*                GetDirectLighting result at its sample point, a map
\*                from style to colour
\* Colours are triples; emitted colours are exact fractions.
\* ---------------------------------------------------------------------

RatMul(a, b) == Rat(a.n * b.n, a.d * b.d)

RatSub(a, b) == Rat(a.n * b.d - b.n * a.d, a.d * b.d)

RatOfInt(k) == [n |-> k, d |-> 1]

SKIP_NAME == <<115, 107, 105, 112>>

GRAY == 127

\* variants used to check that the properties below depend on the code
BlendedColor_NoGray(scale, texturecolor) ==
    [k \in 1..3 |->
        With(RatOfInt(texturecolor[k] - GRAY), LAMBDA tex :
        RatMul(scale, tex))]

LastBounceLightIndex_Size(lights) == Len(lights)

LockIsFree_Always(holder) == TRUE

ReleaseLock_Never(holder, w) == holder

Face_ShouldBounce_ExactName(face) ==
    /\ face.shadow
    /\ face.lightmapped
    /\ SKIP_NAME # face.texname
    /\ ~face.nobounce

\* bounce.cc Face_ShouldBounce
Face_ShouldBounce(face) ==
    /\ face.shadow
    /\ face.lightmapped
    /\ ~StrCaseEq(SKIP_NAME, face.texname)
    /\ ~face.nobounce

\* bounce.cc Face_LookupTextureColor: the colour stored for the face's
\* texture name, gray when there is none; colours is a set of
\* [name, color] entries with distinct names
Face_LookupTextureColor(colours, face) ==
    IF \E e \in colours : e.name = face.texname
    THEN (CHOOSE e \in colours : e.name = face.texname).color
    ELSE <<GRAY, GRAY, GRAY>>

RECURSIVE TotalArea(_, _)
\* the sum of the patch areas from patch n on
TotalArea(patches, n) ==
    IF n > Len(patches) THEN 0
    ELSE With(TotalArea(patches, n + 1), LAMBDA rest : patches[n].area + rest)

\* the styles that have an entry in sum: those of any patch
SumStyles(patches) ==
    UNION { DOMAIN patches[n].lightByStyle : n \in 1..Len(patches) }

RECURSIVE AreaWeighted(_, _, _, _)
\* sum[style][k]: the colour component of each patch that has the style,
\* times the patch's area, added up from patch n on
AreaWeighted(patches, style, k, n) ==
    IF n > Len(patches) THEN 0
    ELSE With(AreaWeighted(patches, style, k, n + 1), LAMBDA rest :
         IF style \in DOMAIN patches[n].lightByStyle
         THEN patches[n].lightByStyle[style][k] * patches[n].area + rest
         ELSE rest)

\* the lerp between gray and the texture colour
BlendedColor(scale, texturecolor) ==
    With(RatMul(RatSub(RatOne, scale), RatOfInt(GRAY)), LAMBDA gray :
    [k \in 1..3 |->
        With(RatMul(scale, RatOfInt(texturecolor[k])), LAMBDA tex :
        RatAdd(tex, gray))])

\* the colours to emit: per style, (average / 255) * (blended / 255)
EmitColors(patches, blendedcolor) ==
    With(TotalArea(patches, 1), LAMBDA totalarea :
    [style \in SumStyles(patches) |->
        [k \in 1..3 |->
            With(AreaWeighted(patches, style, k, 1), LAMBDA sum :
            With(Rat(sum, totalarea), LAMBDA average :
            With(RatDivInt(average, 255), LAMBDA light :
            With(RatDivInt(blendedcolor[k], 255), LAMBDA reflect :
            RatMul(light, reflect)))))]])

\* the assertions at the head of AddBounceLight
AddBounceLight_Asserts(colorByStyle, area) ==
    /\ \A style \in DOMAIN colorByStyle : \A k \in 1..3 :
          ~RatLess(colorByStyle[style][k], RatZero)
    /\ area > 0

\* the record AddBounceLight builds: poly stands for the polygon of the
\* face (faces are told apart by their number)
BounceLight(facenum, colorByStyle, area) ==
    [ poly |-> facenum,
      colorByStyle |-> colorByStyle,
      area |-> area ]

\* what one pass of the worker's loop does with face number i: "reject"
\* (one of the continue statements), "assert" (an assertion of
\* AddBounceLight fails) or "light" with the record to append
ExamineFace(input, i) ==
    With(Lump(input.faces, i), LAMBDA face :
    IF ~Face_ShouldBounce(face) THEN [outcome |-> "reject"]
    ELSE IF face.facearea = 0 THEN [outcome |-> "reject"]
    ELSE IF TotalArea(face.patches, 1) < Fixed(1) THEN [outcome |-> "reject"]
    ELSE With(Face_LookupTextureColor(input.texturecolors, face),
         LAMBDA texturecolor :
         With(BlendedColor(input.bouncecolorscale, texturecolor),
         LAMBDA blendedcolor :
         With(EmitColors(face.patches, blendedcolor),
         LAMBDA emitcolors :
         IF ~AddBounceLight_Asserts(emitcolors, face.facearea)
         THEN [outcome |-> "assert"]
         ELSE [outcome |-> "light",
               light |-> BounceLight(i, emitcolors, face.facearea)]))))

\* the index of the record just pushed
LastBounceLightIndex(lights) == Len(lights) - 1

\* radlightsByFacenum[facenum].push_back(index)
IndexAppended(byFacenum, facenum, index) ==
    [f \in DOMAIN byFacenum \cup {facenum} |->
        IF f = facenum
        THEN Append(IF facenum \in DOMAIN byFacenum
                    THEN byFacenum[facenum] ELSE <<>>, index)
        ELSE byFacenum[f]]

\* unique_lock<mutex> lck{radlights_lock}: taken when no worker holds it
LockIsFree(holder) == holder = 0

\* the lock is released when AddBounceLight returns
ReleaseLock(holder, w) == IF holder = w THEN 0 ELSE holder

\* GetThreadWork: the next face index, -1 when all have been handed out
GetThreadWork(next, numfaces) == IF next < numfaces THEN next ELSE -1

MaxWorkers == 2
MaxFaces == 2

Workers == 1..MaxWorkers

NoLight == [poly |-> -1, colorByStyle |-> <<>>, area |-> 0]

\* a 64 x 64 face lit with (200,200,200) in style 0
LitFace ==
    [ shadow |-> TRUE, lightmapped |-> TRUE, texname |-> <<119>>,
      nobounce |-> FALSE, facearea |-> Fixed(4096),
      patches |-> << [ area |-> Fixed(4096),
                       lightByStyle |-> (0 :> <<200, 200, 200>>) ] >> ]

\* two patches, the second also lit in style 1
TwoPatchFace ==
    [ LitFace EXCEPT !.texname = <<81>>, !.facearea = Fixed(8192),
        !.patches = << [ area |-> Fixed(4096),
                         lightByStyle |-> (0 :> <<255, 0, 10>>) ],
                       [ area |-> Fixed(4096),
                         lightByStyle |-> (0 :> <<0, 0, 0>>)
                                          @@ (1 :> <<100, 50, 0>>) ] >> ]

\* rejected by Face_ShouldBounce for its texture name
SkipFace == [ LitFace EXCEPT !.texname = <<83, 75, 73, 80>> ]

\* degenerate: no area
DegenerateFace == [ LitFace EXCEPT !.facearea = 0, !.patches = <<>> ]

\* half a square unit, with a texture that has no colour
TinyFace ==
    [ LitFace EXCEPT !.texname = <<120>>, !.facearea = 5,
        !.patches = << [ area |-> 5,
                         lightByStyle |-> (0 :> <<10, 10, 10>>) ] >> ]

\* one square unit
UnitFace ==
    [ LitFace EXCEPT !.facearea = Fixed(1),
        !.patches = << [ area |-> Fixed(1),
                         lightByStyle |-> (0 :> <<10, 10, 10>>) ] >> ]

FacePool ==
    { LitFace, TwoPatchFace, SkipFace, UnitFace,
      \* rejected by Face_ShouldBounce for each of its flags
      [ LitFace EXCEPT !.shadow = FALSE ],
      [ LitFace EXCEPT !.lightmapped = FALSE ],
      [ LitFace EXCEPT !.nobounce = TRUE ],
      DegenerateFace, TinyFace }

FaceTables == UNION { [1..n -> FacePool] : n \in 1..MaxFaces }

\* the colours MakeTextureColors stored
TextureColors ==
    { [name |-> <<119>>, color |-> <<255, 255, 255>>],
      [name |-> <<81>>, color |-> <<0, 255, 100>>] }

ColorScales == { RatZero, Rat(1, 2), RatOne }

BounceInputs ==
    { [ faces |-> faces, texturecolors |-> TextureColors,
        bouncecolorscale |-> scale, workers |-> MaxWorkers ] :
      faces \in FaceTables, scale \in ColorScales }

\* MakeBounceLights starts the workers on faces 0 .. numfaces - 1
InitBounce ==
    /\ ParseIdle /\ StyleIdle /\ PipeIdle /\ QueryIdle /\ SubdivIdle
    /\ b_in \in BounceInputs
    /\ next_work = 0
    /\ radlights_lock = 0
    /\ radlights = <<>>
    /\ radlightsByFacenum = <<>>
    /\ w_pc = [w \in Workers |-> "get"]
    /\ w_face = [w \in Workers |-> -1]
    /\ w_light = [w \in Workers |-> NoLight]
    /\ examined = [i \in 0..(Len(b_in.faces) - 1) |-> 0]

\* no assertion has ended the program
Running == \A w \in Workers : w_pc[w] # "assert"

\* i = GetThreadWork(); -1 ends the loop
GetWork(w) ==
    /\ w_pc[w] = "get"
    /\ \E i \in {GetThreadWork(next_work, Len(b_in.faces))} :
          IF i = -1
          THEN /\ w_pc' = [w_pc EXCEPT ![w] = "done"]
               /\ UNCHANGED <<next_work, w_face>>
          ELSE /\ next_work' = next_work + 1
               /\ w_face' = [w_face EXCEPT ![w] = i]
               /\ w_pc' = [w_pc EXCEPT ![w] = "examine"]
    /\ UNCHANGED <<b_in, radlights_lock, radlights, radlightsByFacenum,
                   w_light, examined>>

\* the loop body up to the lock in AddBounceLight; the locals face and l
\* end with the pass of the loop that made them
Examine(w) ==
    /\ w_pc[w] = "examine"
    /\ examined' = [examined EXCEPT ![w_face[w]] = @ + 1]
    /\ \E r \in {ExamineFace(b_in, w_face[w])} :
          \/ /\ r.outcome = "reject"
             /\ w_pc' = [w_pc EXCEPT ![w] = "get"]
             /\ w_face' = [w_face EXCEPT ![w] = -1]
             /\ UNCHANGED w_light
          \/ /\ r.outcome = "assert"
             /\ w_pc' = [w_pc EXCEPT ![w] = "assert"]
             /\ UNCHANGED <<w_face, w_light>>
          \/ /\ r.outcome = "light"
             /\ w_light' = [w_light EXCEPT ![w] = r.light]
             /\ w_pc' = [w_pc EXCEPT ![w] = "lock"]
             /\ UNCHANGED w_face
    /\ UNCHANGED <<b_in, next_work, radlights_lock, radlights,
                   radlightsByFacenum>>

\* unique_lock<mutex> lck{radlights_lock}
Lock(w) ==
    /\ w_pc[w] = "lock"
    /\ LockIsFree(radlights_lock)
    /\ radlights_lock' = w
    /\ w_pc' = [w_pc EXCEPT ![w] = "push"]
    /\ UNCHANGED <<b_in, next_work, radlights, radlightsByFacenum,
                   w_face, w_light, examined>>

\* radlights.push_back(l)
Push(w) ==
    /\ w_pc[w] = "push"
    /\ radlights' = Append(radlights, w_light[w])
    /\ w_pc' = [w_pc EXCEPT ![w] = "index"]
    /\ UNCHANGED <<b_in, next_work, radlights_lock, radlightsByFacenum,
                   w_face, w_light, examined>>

\* radlightsByFacenum[Face_GetNum(bsp, face)].push_back(lastBounceLightIndex)
Index(w) ==
    /\ w_pc[w] = "index"
    /\ radlightsByFacenum' =
          IndexAppended(radlightsByFacenum, w_face[w],
                        LastBounceLightIndex(radlights))
    /\ w_pc' = [w_pc EXCEPT ![w] = "unlock"]
    /\ UNCHANGED <<b_in, next_work, radlights_lock, radlights,
                   w_face, w_light, examined>>

\* AddBounceLight returns: the lock is released, the loop goes on
Unlock(w) ==
    /\ w_pc[w] = "unlock"
    /\ radlights_lock' = ReleaseLock(radlights_lock, w)
    /\ w_pc' = [w_pc EXCEPT ![w] = "get"]
    /\ w_face' = [w_face EXCEPT ![w] = -1]
    /\ w_light' = [w_light EXCEPT ![w] = NoLight]
    /\ UNCHANGED <<b_in, next_work, radlights, radlightsByFacenum, examined>>

WorkerStep(w) ==
    \/ GetWork(w) \/ Examine(w) \/ Lock(w)
    \/ Push(w) \/ Index(w) \/ Unlock(w)

Worker_GetWork ==
    /\ Running
    /\ \E w \in Workers : GetWork(w)
    /\ UNCHANGED <<parseVars, styleVars, pipeVars, queryVars, subdivVars>>

Worker_Examine ==
    /\ Running
    /\ \E w \in Workers : Examine(w)
    /\ UNCHANGED <<parseVars, styleVars, pipeVars, queryVars, subdivVars>>

Worker_Lock ==
    /\ Running
    /\ \E w \in Workers : Lock(w)
    /\ UNCHANGED <<parseVars, styleVars, pipeVars, queryVars, subdivVars>>

Worker_Push ==
    /\ Running
    /\ \E w \in Workers : Push(w)
    /\ UNCHANGED <<parseVars, styleVars, pipeVars, queryVars, subdivVars>>

Worker_Index ==
    /\ Running
    /\ \E w \in Workers : Index(w)
    /\ UNCHANGED <<parseVars, styleVars, pipeVars, queryVars, subdivVars>>

Worker_Unlock ==
    /\ Running
    /\ \E w \in Workers : Unlock(w)
    /\ UNCHANGED <<parseVars, styleVars, pipeVars, queryVars, subdivVars>>

NextBounce ==
    \/ Worker_GetWork
    \/ Worker_Examine
    \/ Worker_Lock
    \/ Worker_Push
    \/ Worker_Index
    \/ Worker_Unlock

SpecBounce == InitBounce /\ [][NextBounce]_vars

\* every worker that can take a step eventually takes one
BounceFairness ==
    \A w \in Workers :
        WF_vars(/\ Running
                /\ WorkerStep(w)
                /\ UNCHANGED <<parseVars, styleVars, pipeVars, queryVars, subdivVars>>)

\* the inputs of the termination check: one face for each way through the
\* loop body (appended, rejected by Face_ShouldBounce, by its zero area, by
\* its small total area), and one blend
InitBounceFair ==
    /\ InitBounce
    /\ b_in.bouncecolorscale = Rat(1, 2)
    /\ \A n \in 1..Len(b_in.faces) :
          b_in.faces[n] \in {LitFace, TwoPatchFace, SkipFace,
                             DegenerateFace, TinyFace}

SpecBounceFair == InitBounceFair /\ [][NextBounce]_vars /\ BounceFairness

\* every worker has left its loop
Terminated == \A w \in Workers : w_pc[w] = "done"

RECURSIVE SequentialLights(_, _)
\* the records a single worker appends, taking the faces from number i on
\* in order
SequentialLights(input, i) ==
    IF i >= Len(input.faces) THEN <<>>
    ELSE With(SequentialLights(input, i + 1), LAMBDA rest :
         With(ExamineFace(input, i), LAMBDA r :
         IF r.outcome = "light" THEN <<r.light>> \o rest ELSE rest))

\* the index lists of that single-worker run
SequentialByFacenum(input) ==
    With(SequentialLights(input, 0), LAMBDA lights :
    [f \in {lights[n].poly : n \in 1..Len(lights)} |->
        <<(CHOOSE n \in 1..Len(lights) : lights[n].poly = f) - 1>>])

Records(lights) == {lights[n] : n \in 1..Len(lights)}

\* C15 as stated: whatever the interleaving, the pass ends with the same
\* radlightsByFacenum map (same keys and same value lists) and the same set
\* of bouncelight records as the run of a single worker; only the order of
\* radlights differs.
C15_SameMapEveryInterleaving ==
    Terminated =>
        /\ radlightsByFacenum = SequentialByFacenum(b_in)
        /\ Records(radlights) = Records(SequentialLights(b_in, 0))

\* C15 amended: whatever the interleaving, the pass ends with the same keys
\* of radlightsByFacenum, one index per key, that index naming the record
\* built from the key's face, and with the same records in radlights as the
\* run of a single worker; the order of radlights, and with it the index
\* values stored in the lists, depends on the interleaving.
C15_SameKeysAndRecords ==
    Terminated =>
        With(SequentialLights(b_in, 0), LAMBDA lights :
        /\ DOMAIN radlightsByFacenum = DOMAIN SequentialByFacenum(b_in)
        /\ \A f \in DOMAIN radlightsByFacenum :
              /\ Len(radlightsByFacenum[f]) = 1
              /\ radlightsByFacenum[f][1] \in 0..(Len(radlights) - 1)
              /\ radlights[radlightsByFacenum[f][1] + 1]
                    = lights[SequentialByFacenum(b_in)[f][1] + 1]
        /\ Len(radlights) = Len(lights)
        /\ Records(radlights) = Records(lights))

\* the pass has ended with the record of face 1 pushed before the record
\* of face 0
C15_Witness ==
    /\ Terminated
    /\ Len(radlights) = 2
    /\ radlights[1].poly = 1
    /\ radlights[2].poly = 0
    /\ radlightsByFacenum[0] = <<1>>
    /\ radlightsByFacenum[1] = <<0>>

\* the (face, position) pairs of the index lists
IndexEntries ==
    { e \in (DOMAIN radlightsByFacenum) \X (1..MaxFaces) :
        e[2] <= Len(radlightsByFacenum[e[1]]) }

\* C16: whenever no worker holds radlights_lock, every index stored in
\* radlightsByFacenum[f] is a valid index into radlights, the record at
\* that index was built from face f, no index occurs in two lists or twice
\* in one list, and the number of stored indices is the length of
\* radlights.
C16_IndexesMatchWhenUnlocked ==
    radlights_lock = 0 =>
        /\ \A f \in DOMAIN radlightsByFacenum :
              /\ Len(radlightsByFacenum[f]) <= MaxFaces
              /\ \A n \in 1..Len(radlightsByFacenum[f]) :
                    /\ radlightsByFacenum[f][n] \in 0..(Len(radlights) - 1)
                    /\ radlights[radlightsByFacenum[f][n] + 1].poly = f
        /\ \A a \in IndexEntries : \A b \in IndexEntries :
              radlightsByFacenum[a[1]][a[2]] = radlightsByFacenum[b[1]][b[2]]
                  => a = b
        /\ Cardinality(IndexEntries) = Len(radlights)

\* the lock is free after two workers have each appended a record, the
\* record of face 1 first, and one of them is already at work again
C16_Witness ==
    /\ radlights_lock = 0
    /\ Len(radlights) = 2
    /\ radlights[1].poly = 1
    /\ DOMAIN radlightsByFacenum = {0, 1}
    /\ \E w \in Workers : w_pc[w] = "get"

\* each face number has been examined once, so by exactly one worker
ExaminedOnce ==
    \A i \in 0..(Len(b_in.faces) - 1) : examined[i] = 1

\* C17: under fair scheduling, with a work queue handing out each face
\* index once and then -1, every worker eventually terminates, the lock is
\* free, and every face index has been examined by exactly one worker.
C17_WorkersTerminate ==
    <>[](Terminated /\ radlights_lock = 0 /\ ExaminedOnce)

\* the pass has ended after two workers each examined one face and
\* appended its record, the worker with face 1 first
C17_Witness ==
    /\ Terminated
    /\ radlights_lock = 0
    /\ ExaminedOnce
    /\ Len(radlights) = 2
    /\ radlights[1].poly = 1
    /\ Len(b_in.faces) = 2

\* the pass has ended with a rejected face examined and nothing appended
C17_RejectedFaceExamined ==
    /\ Terminated
    /\ examined[0] = 1
    /\ ~Face_ShouldBounce(Lump(b_in.faces, 0))
    /\ radlights = <<>>

C18_DarkTexture ==
    /\ b_in.bouncecolorscale = Rat(1, 2)
    /\ \E n \in 1..Len(radlights) :
          /\ DOMAIN radlights[n].colorByStyle = {0, 1}
          /\ radlights[n].colorByStyle[0][1].n > 0
          /\ radlights[n].colorByStyle[0][2] = RatZero

(***************************************************************************)
(* Claims on the entity dicts after LoadEntities                           *)
(***************************************************************************)
\* the number of opening braces of a text
BlocksIn(text) == Cardinality({ i \in 1..Len(text) : text[i] = CH_LBRACE })

\* C21: no step of SetupLights adds, removes, reorders or modifies an
\* entity dict, so entdicts after SetupLights is what LoadEntities made of
\* the lump, and the lump WriteEntitiesToString writes is the text of those
\* dicts: as many blocks, the same contents, no block for a generated
\* light.
C21_EntDictsFrozen ==
    [][ /\ pc = "LoadEntities" =>
              entdicts' = LoadEntities(bsp.dentdata, cfg, lighttargetnames,
                                       warned_once).entdicts
        /\ pc # "LoadEntities" => entdicts' = entdicts
        /\ pc # "done" => bsp' = bsp
        /\ (pc = "done" /\ pc' = "written") =>
              /\ bsp'.dentdata = EntData_Write(entdicts)
              /\ BlocksIn(bsp'.dentdata) = Len(entdicts) ]_vars

\* the lump has been written after SetupLights made surface lights and
\* jitter copies
C21_Witness ==
    /\ pc = "written"
    /\ \E n \in 1..Len(all_lights) :
          all_lights[n].generated /\ all_lights[n].samples > 1
    /\ \E n \in 1..Len(all_lights) :
          all_lights[n].generated /\ all_lights[n].samples = 1
    /\ Len(entdicts) = 3

(***************************************************************************)
(* Claims on the surface-light pass                                        *)
(***************************************************************************)
\* the mark entries MakeSurfaceLights does not skip for the face itself
\* (no modelinfo) or for the side it is seen from (liquid, under water)
TakenEntries(world) ==
    With(MarkEntries(world), LAMBDA entries :
    {n \in 1..Len(entries) : ~SkipsFace(world, entries[n])})

\* C22: during MakeSurfaceLights GL_SubdivideSurface is invoked at most
\* once per face number, in however many marksurface lists the face
\* appears; a liquid face reached first from a non-empty leaf is skipped
\* there without being marked visited, and is subdivided once when a later
\* empty leaf references it.  With templates present and no fatal error the
\* faces subdivided are exactly those with an entry that is not skipped.
C22_SubdividedOnce ==
    [][ pc = "MakeSurfaceLights" =>
        \A r \in {MakeSurfaceLights(bsp.world, entdicts, cfg, all_lights)} :
           /\ all_lights' = r.lights
           /\ \A a \in 1..Len(r.calls) : \A b \in 1..Len(r.calls) :
                 r.calls[a] = r.calls[b] => a = b
           /\ ( /\ r.fatal = "none"
                /\ \E n \in 1..Len(all_lights) :
                      IsTemplate(entdicts, all_lights[n]) ) =>
                 {r.calls[a] : a \in 1..Len(r.calls)}
                    = {MarkEntries(bsp.world)[n].facenum :
                          n \in TakenEntries(bsp.world)} ]_vars

\* MakeSurfaceLights has run with a template in a world where the liquid
\* face 1 is listed first in the water leaf and again in the empty leaf,
\* and face 0 twice in the empty leaf: the pass made lights on both faces
C22_Witness ==
    /\ pc = StepAfter("MakeSurfaceLights")
    /\ MarkEntries(bsp.world)[1] = [leaf |-> 1, facenum |-> 1]
    /\ SkipsFace(bsp.world, MarkEntries(bsp.world)[1])
    /\ 4 \in TakenEntries(bsp.world)
    /\ MarkEntries(bsp.world)[4].facenum = 1
    /\ MarkEntries(bsp.world)[2].facenum = 0
    /\ MarkEntries(bsp.world)[5].facenum = 0
    /\ \E n \in 1..Len(all_lights) :
          /\ all_lights[n].generated
          /\ all_lights[n].origin[3] > -Fixed(64)
    /\ \E n \in 1..Len(all_lights) :
          /\ all_lights[n].generated
          /\ all_lights[n].origin[3] <= -Fixed(64) + Fixed(2)
          /\ all_lights[n].origin[3] >= -Fixed(64)

(***************************************************************************)
(* Claims on which faces bounce                                            *)
(***************************************************************************)
\* the conditions for a bouncelight as the claim lists them
BounceConditions(face) ==
    /\ face.shadow
    /\ face.lightmapped
    /\ ~StrCaseEq(face.texname, SKIP_NAME)
    /\ ~face.nobounce
    /\ face.facearea # 0
    /\ TotalArea(face.patches, 1) >= Fixed(1)

\* the positions in radlights of the records made from face number i
RecordsOfFace(i) == {n \in 1..Len(radlights) : radlights[n].poly = i}

\* C23: at the end of the bounce pass a face has exactly one bouncelight
\* if and only if its model casts shadows, it is lightmapped, its texture
\* name is not "skip" in any letter case, its texinfo lacks NOBOUNCE, its
\* winding area is not zero and its patches' areas sum to at least 1;
\* otherwise it has none.  A 64 x 64 face that passes has one record, of
\* area 4096, and one index in radlightsByFacenum.
C23_OneLightIffConditions ==
    Terminated =>
        \A i \in 0..(Len(b_in.faces) - 1) :
            IF BounceConditions(Lump(b_in.faces, i))
            THEN /\ Cardinality(RecordsOfFace(i)) = 1
                 /\ i \in DOMAIN radlightsByFacenum
                 /\ Len(radlightsByFacenum[i]) = 1
                 /\ \A n \in RecordsOfFace(i) :
                       /\ radlights[n].area = Lump(b_in.faces, i).facearea
                       /\ Lump(b_in.faces, i) = LitFace
                             => radlights[n].area = Fixed(4096)
            ELSE /\ RecordsOfFace(i) = {}
                 /\ i \notin DOMAIN radlightsByFacenum

\* the pass has ended on a table of the 64 x 64 face and a face named
\* "SKIP": one record of area 4096, one index for face 0, none for face 1
C23_Witness ==
    /\ Terminated
    /\ b_in.faces = <<LitFace, SkipFace>>
    /\ Len(radlights) = 1
    /\ radlights[1].area = Fixed(4096)
    /\ radlightsByFacenum = (0 :> <<0>>)

\* the pass has ended on a face of exactly one square unit, appended, and
\* a face of half a square unit, rejected
C23_AreaBoundary ==
    /\ Terminated
    /\ b_in.faces = <<TinyFace, UnitFace>>
    /\ Len(radlights) = 1
    /\ radlights[1].poly = 1

(***************************************************************************)
(* GL_SubdivideSurface and SubdividePolygon, one call at a time            *)
(***************************************************************************)
\* 64, the entries of verts[], front[], back[] and dist[]
MAX_POLY_BUFFER == 64

\* maxs - mins on each axis
Extent(verts) ==
    With(BoundPoly(verts), LAMBDA bounds :
         [i \in 1..3 |-> bounds.maxs[i] - bounds.mins[i]])

\* the body of one SubdividePolygon call, up to its recursive calls:
\* "fatal" for Error("numverts"), "cell" when no axis is cut, "split" with
\* the two polygons of the recursive calls
SubdividePolygon_Body(verts, subdivide_size) ==
    IF Len(verts) > MAX_SUBDIVIDE_VERTS THEN
        [NoSubdivideCall EXCEPT !.verts = verts, !.kind = "fatal"]
    ELSE
        With(BoundPoly(verts), LAMBDA bounds :
        With(CutAxes(bounds, subdivide_size), LAMBDA axes :
        IF axes = {} THEN
            [NoSubdivideCall EXCEPT !.verts = verts, !.kind = "cell"]
        ELSE
            With(CutValue(bounds, MinOf(axes), subdivide_size), LAMBDA m :
            With(ClipPoly(verts, MinOf(axes), m), LAMBDA c :
                 [verts |-> verts, kind |-> "split", axis |-> MinOf(axes),
                  m |-> m, front |-> c.front, back |-> c.back]))))

\* a call still to be made: its polygon, the axis its caller cut along (0
\* for the call of GL_SubdivideSurface) and the caller's extent on that axis
PendingCall(verts, axis, parent_extent) ==
    [verts |-> verts, axis |-> axis, parent_extent |-> parent_extent]

\* GL_SubdivideSurface: copy numedges vertices into verts[64], then call
\* SubdividePolygon.  Writing past verts[63] is undefined: the process is
\* killed or runs on.
Step_GL_SubdivideSurface ==
    /\ sd_pc = "GL_SubdivideSurface"
    /\ sd_stack' = <<PendingCall(sd_in.verts, 0, 0)>>
    /\ IF Len(sd_in.verts) > MAX_POLY_BUFFER
       THEN /\ sd_oob' = "verts"
            /\ sd_pc' \in {"crashed", "SubdividePolygon"}
       ELSE /\ sd_oob' = sd_oob
            /\ sd_pc' = "SubdividePolygon"
    /\ UNCHANGED <<sd_in, sd_cells, sd_last>>
    /\ UNCHANGED <<parseVars, styleVars, pipeVars, queryVars, bounceVars>>

\* the buffer a call with these results indexes out of range
BufferOverrun(call) ==
    IF call.kind = "fatal" THEN "none"
    ELSE IF Len(call.verts) >= MAX_POLY_BUFFER THEN "dist"
    ELSE IF Len(call.front) > MAX_POLY_BUFFER THEN "front"
    ELSE IF Len(call.back) > MAX_POLY_BUFFER THEN "back"
    ELSE "none"

\* one SubdividePolygon call: the next pending call is made; a split leaves
\* the calls on front and back to be made before the caller's remaining ones
Step_SubdividePolygon ==
    /\ sd_pc = "SubdividePolygon"
    /\ \E call \in {SubdividePolygon_Body(Head(sd_stack).verts,
                                          sd_in.subdivide_size)} :
         /\ sd_last' = call
         /\ sd_cells' = IF call.kind = "cell"
                        THEN Append(sd_cells, call.verts) ELSE sd_cells
         /\ sd_stack' =
              IF call.kind = "split"
              THEN <<PendingCall(call.front, call.axis,
                                 Extent(call.verts)[call.axis]),
                     PendingCall(call.back, call.axis,
                                 Extent(call.verts)[call.axis])>>
                   \o Tail(sd_stack)
              ELSE Tail(sd_stack)
         /\ IF call.kind = "fatal"
            THEN sd_pc' = "fatal" /\ sd_oob' = sd_oob
            ELSE IF BufferOverrun(call) # "none"
            THEN /\ sd_oob' = BufferOverrun(call)
                 /\ sd_pc' \in {"crashed", "SubdividePolygon"}
            ELSE /\ sd_oob' = sd_oob
                 /\ sd_pc' = IF sd_stack' = <<>> THEN "done"
                             ELSE "SubdividePolygon"
    /\ UNCHANGED sd_in
    /\ UNCHANGED <<parseVars, styleVars, pipeVars, queryVars, bounceVars>>

Point(x, y, z) == <<x, y, z>>

\* a rectangle from (x0, 0) of w by h tenths, in the plane z = 0 or y = 0
Rect(x0, w, h, plane) ==
    IF plane = "xy"
    THEN << Point(x0, 0, 0), Point(x0 + w, 0, 0),
            Point(x0 + w, h, 0), Point(x0, h, 0) >>
    ELSE << Point(x0, 0, 0), Point(x0 + w, 0, 0),
            Point(x0 + w, 0, h), Point(x0, 0, h) >>

\* side lengths, in tenths, about the multiples of 8 units
RectSides == {70, 80, 160, 239, 240, 241, 320, 400}

Rects ==
    { Rect(x0, w, h, plane) :
        x0 \in {0, Fixed(8), -Fixed(24)}, w \in RectSides, h \in {80, 240, 400},
        plane \in {"xy", "xz"} }

\* a convex polygon: n points of the parabola x = y * y about y = 0, and
\* an apex on its axis
ArcPoly(n, apex) ==
    [k \in 1..n |->
        Point(Fixed((k - 1 - (n \div 2)) * (k - 1 - (n \div 2))),
              Fixed(k - 1 - (n \div 2)), 0)]
    \o << Point(Fixed(apex), 0, 0) >>

\* a polygon whose n vertices lie in turn on the two sides of x = 16
Zigzag(n) ==
    [k \in 1..n |-> Point(IF k % 2 = 1 THEN 0 ELSE Fixed(32), Fixed(k), 0)]

Polygons ==
    Rects \cup
    { << Point(0, 0, 0), Point(Fixed(48), 0, 0), Point(0, Fixed(48), 0) >>,
      ArcPoly(59, 900), ArcPoly(59, 2000), ArcPoly(60, 900),
      ArcPoly(63, 900), ArcPoly(64, 900),
      Zigzag(40), Zigzag(44) }

SubdivideSizes == {Fixed(16), Fixed(32)}

InitSubdiv ==
    /\ ParseIdle /\ StyleIdle /\ PipeIdle /\ QueryIdle /\ BounceIdle
    /\ sd_in \in [verts : Polygons, subdivide_size : SubdivideSizes]
    /\ sd_stack = <<>>
    /\ sd_cells = <<>>
    /\ sd_last = NoSubdivideCall
    /\ sd_oob = "none"
    /\ sd_pc = "GL_SubdivideSurface"

NextSubdiv ==
    \/ Step_GL_SubdivideSurface
    \/ Step_SubdividePolygon

SpecSubdiv == InitSubdiv /\ [][NextSubdiv]_vars

\* the process runs: a call that can be made is made
SpecSubdivFair == SpecSubdiv /\ WF_vars(NextSubdiv)

(***************************************************************************)
(* Claims on SubdividePolygon                                              *)
(***************************************************************************)
\* m is the multiple of subdivide_size nearest the midpoint of the bounds
\* on axis i, the upper one of two equally near
NearestMultiple(m, bounds, i, subdivide_size) ==
    /\ m % subdivide_size = 0
    /\ 2 * m - (bounds.mins[i] + bounds.maxs[i]) <= subdivide_size
    /\ (bounds.mins[i] + bounds.maxs[i]) - 2 * m < subdivide_size

\* the multiples of subdivide_size about the bounds on axis i
MultiplesAbout(bounds, i, subdivide_size) ==
    { subdivide_size * q :
        q \in ((bounds.mins[i] \div subdivide_size) - 1)
              ..((bounds.maxs[i] \div subdivide_size) + 1) }

\* the axes with the rounded midpoint at least 8 units from both bounds
AxesAtLeastEightInside(bounds, subdivide_size) ==
    { i \in 1..3 :
        \E m \in MultiplesAbout(bounds, i, subdivide_size) :
            /\ NearestMultiple(m, bounds, i, subdivide_size)
            /\ m - bounds.mins[i] >= Fixed(8)
            /\ bounds.maxs[i] - m >= Fixed(8) }

\* the axes with the rounded midpoint more than 8 units from both bounds
AxesBeyondEightInside(bounds, subdivide_size) ==
    { i \in 1..3 :
        \E m \in MultiplesAbout(bounds, i, subdivide_size) :
            /\ NearestMultiple(m, bounds, i, subdivide_size)
            /\ m - bounds.mins[i] > Fixed(8)
            /\ bounds.maxs[i] - m > Fixed(8) }

\* the last call cut its polygon on the least axis of the set, at the
\* rounded midpoint, into a part at or above it and a part at or below it;
\* with the set empty it cut nothing and made the polygon a cell
CutOnFirstOf(axes) ==
    IF axes = {}
    THEN sd_last.kind = "cell"
    ELSE /\ sd_last.kind = "split"
         /\ sd_last.axis = MinOf(axes)
         /\ NearestMultiple(sd_last.m, BoundPoly(sd_last.verts),
                            sd_last.axis, sd_in.subdivide_size)
         /\ \A n \in 1..Len(sd_last.front) :
               sd_last.front[n][sd_last.axis] >= sd_last.m
         /\ \A n \in 1..Len(sd_last.back) :
               sd_last.back[n][sd_last.axis] <= sd_last.m

\* C24 as stated: SubdividePolygon cuts along the first axis, in the order
\* 0, 1, 2, on which the midpoint rounded to the nearest multiple of
\* subdivide_size is more than 8 units from mins and from maxs; an axis
\* with the rounded midpoint exactly 8 units from either is not cut.
C24_SplitsOnlyBeyondEight ==
    sd_last.kind \in {"cell", "split"} =>
        CutOnFirstOf(AxesBeyondEightInside(BoundPoly(sd_last.verts),
                                           sd_in.subdivide_size))

\* C24 amended: SubdividePolygon cuts along the first axis, in the order
\* 0, 1, 2, on which the midpoint rounded to the nearest multiple of
\* subdivide_size is at least 8 units from mins and from maxs; an axis
\* with the rounded midpoint exactly 8 units from either is cut, and with
\* no such axis the polygon is a cell.
C24_SplitsAtEightOrMore ==
    sd_last.kind \in {"cell", "split"} =>
        CutOnFirstOf(AxesAtLeastEightInside(BoundPoly(sd_last.verts),
                                            sd_in.subdivide_size))

\* a polygon has been cut on its second axis with the cut exactly 8 units
\* below maxs, its first axis being too narrow
C24_Witness ==
    /\ sd_last.kind = "split"
    /\ sd_last.axis = 2
    /\ BoundPoly(sd_last.verts).maxs[2] - sd_last.m = Fixed(8)
    /\ Len(sd_last.front) = 4
    /\ Len(sd_last.back) = 4

\* a polygon has been cut with the cut exactly 8 units above mins
C24_EightAboveMins ==
    /\ sd_last.kind = "split"
    /\ sd_last.m - BoundPoly(sd_last.verts).mins[sd_last.axis] = Fixed(8)

\* C25 as stated: a polygon of at most 64 vertices is accepted, the fatal
\* error is raised only for more than 64 vertices, and no buffer of
\* GL_SubdivideSurface or SubdividePolygon is indexed out of range.
C25_SixtyFourAcceptedInRange ==
    /\ sd_oob = "none"
    /\ sd_pc = "fatal" => Len(sd_last.verts) > MAX_POLY_BUFFER

\* a zigzag of 44 vertices was accepted and cut at x = 16: every vertex
\* went to one side and every edge gave a point to both, 66 points for
\* front[64]
C25_FrontOverrun ==
    /\ sd_oob = "front"
    /\ Len(sd_in.verts) = 44
    /\ sd_last.kind = "split"
    /\ Len(sd_last.front) = 66

\* a face of 65 edges was copied into verts[64]
C25_VertsOverrun ==
    /\ sd_oob = "verts"
    /\ Len(sd_in.verts) = 65

\* a polygon of 61 vertices met the fatal error
C25_FatalAtSixtyOne ==
    /\ sd_pc = "fatal"
    /\ sd_oob = "none"
    /\ Len(sd_last.verts) = 61

\* a convex polygon of 60 vertices was accepted and cut, and its part of
\* 61 vertices met the fatal error in the recursive call
C25_FatalInRecursiveCall ==
    /\ sd_pc = "fatal"
    /\ sd_oob = "none"
    /\ Len(sd_in.verts) = 60
    /\ Len(sd_last.verts) = 61

\* the subdivision has ended: every cell reached, Error() called, or the
\* process killed
SubdivisionEnded == sd_pc \in {"done", "fatal", "crashed"}

\* every call still to be made by a SubdividePolygon call is on a polygon
\* at least 8 units narrower, on the axis of the cut, than the caller's
CallsNarrowerByEight ==
    \A n \in 1..Len(sd_stack) :
        sd_stack[n].axis # 0 =>
            Extent(sd_stack[n].verts)[sd_stack[n].axis] + Fixed(8)
                <= sd_stack[n].parent_extent

MaxFieldLights == 2

\* a light with the given texts for delay, _samples, _deviance and light,
\* an empty text leaving the key out
FieldLight(delay, samples, deviance, light) ==
    With(Classed(K.light), LAMBDA d0 :
    With(IF delay = <<>> THEN d0 ELSE DictSet(d0, K.delay, delay), LAMBDA d1 :
    With(IF samples = <<>> THEN d1 ELSE DictSet(d1, K.x_samples, samples),
         LAMBDA d2 :
    With(IF deviance = <<>> THEN d2 ELSE DictSet(d2, K.x_deviance, deviance),
         LAMBDA d3 :
         IF light = <<>> THEN d3 ELSE DictSet(d3, K.light, light)))))

\* delay absent, "1" .. "5", and the unknown "6" and "-1"
DelayTexts == { <<>>, <<49>>, <<50>>, <<51>>, <<52>>, <<53>>, <<54>>,
                <<45, 49>> }

\* lights of every formula with _samples "3" _deviance "2"; plain lights;
\* a light of 100 with formula 2 and three samples; a light whose
\* _samples "1" clears the jitter
JitterPoolLights ==
    { FieldLight(delay, <<51>>, <<50>>, <<>>) : delay \in DelayTexts }
    \cup { FieldLight(<<>>, <<>>, <<>>, <<>>),
           FieldLight(<<50>>, <<>>, <<>>, <<>>),
           FieldLight(<<50>>, <<51>>, <<50>>, <<49, 48, 48>>),
           FieldLight(<<50>>, <<49>>, <<50>>, <<>>) }

\* lights with delay "2" and _samples "3", "1", "0" or "-2" beside a
\* _deviance of "2", "-1" or none; plain lights with a known and with an
\* unknown delay; lights with delay "6" and a jitter
FieldPool ==
    { FieldLight(<<50>>, samples, deviance, <<>>) :
        samples \in { <<51>>, <<48>>, <<45, 50>> },
        deviance \in { <<>>, <<50>> } }
    \cup { FieldLight(delay, <<>>, <<>>, <<>>) :
             delay \in { <<>>, <<50>>, <<54>>, <<45, 49>> } }
    \cup { FieldLight(<<50>>, <<49>>, <<50>>, <<>>),
           FieldLight(<<50>>, <<51>>, <<45, 49>>, <<>>),
           FieldLight(<<54>>, <<51>>, <<50>>, <<>>),
           FieldLight(<<54>>, <<48>>, <<50>>, <<>>) }

FieldSettings == { DefaultCfg, [DefaultCfg EXCEPT !.addminlight = TRUE] }

InitFields ==
    \E es \in SeqsUpTo(FieldPool, MaxFieldLights),
       settings \in FieldSettings :
        PipeStart([dentdata |-> EntData_Write(<<Worldspawn>> \o es),
                   world |-> NoWorld], settings)

SpecFields == InitFields /\ [][NextLoad]_vars

InitJitter ==
    \E es \in SeqsUpTo(JitterPoolLights, MaxFieldLights),
       settings \in FieldSettings :
        PipeStart([dentdata |-> EntData_Write(<<Worldspawn>> \o es),
                   world |-> NoWorld], settings)

NextJitter ==
    \/ Step_LoadEntities
    \/ Step_MakeSurfaceLights
    \/ Step_JitterEntities

SpecJitter == InitJitter /\ [][NextJitter]_vars

(***************************************************************************)
(* Claims on CheckEntityFields                                             *)
(***************************************************************************)
\* the light as LoadEntities built it from its dict, before
\* CheckEntityFields
AsBuilt(entity) == ConstructLight(entity.epairs, entdicts[entity.epairs])

UnknownFormula(formula) == formula < LF.LINEAR \/ formula >= LF.COUNT

FormulaWarnings ==
    SelectSeq(log, LAMBDA line : line = "WARNING: unknown formula number")

\* C26 as stated: over the CheckEntityFields calls of one run, the first
\* light whose formula number is outside the known range produces exactly
\* one warning, the later ones none, and each such light ends with formula
\* LINEAR.
C26_WarnsOnFirstUnknown ==
    Loaded =>
        /\ Len(FormulaWarnings) =
              IF \E n \in 1..Len(all_lights) :
                    UnknownFormula(AsBuilt(all_lights[n]).formula)
              THEN 1 ELSE 0
        /\ \A n \in 1..Len(all_lights) :
              UnknownFormula(AsBuilt(all_lights[n]).formula)
                  => all_lights[n].formula = LF.LINEAR

\* two lights with delay "6" and "-1" have been loaded, both are LINEAR,
\* and nothing was logged
C26_NeverWarned ==
    /\ Loaded
    /\ Len(all_lights) = 2
    /\ AsBuilt(all_lights[1]).formula = 6
    /\ AsBuilt(all_lights[2]).formula = -1
    /\ all_lights[1].formula = LF.LINEAR
    /\ all_lights[2].formula = LF.LINEAR
    /\ warned_once
    /\ log = <<>>

\* C28: after CheckEntityFields every light has samples >= 1, deviance >= 0
\* and samples = 1 exactly when deviance = 0: a deviance above 0 with
\* samples 0 gets 16 samples; otherwise a deviance of 0 or less, or samples
\* of 1 or less, negative ones included, give deviance 0 and samples 1; any
\* other light keeps both.  The intensity is divided by a number of
\* samples that is at least 1.
C28_SamplesAndDeviance ==
    Loaded =>
        \A n \in 1..Len(all_lights) :
            \A built \in {AsBuilt(all_lights[n])} :
                /\ all_lights[n].samples >= 1
                /\ all_lights[n].deviance >= 0
                /\ all_lights[n].samples = 1 <=> all_lights[n].deviance = 0
                /\ all_lights[n].light.d > 0
                /\ IF built.deviance > 0 /\ built.samples = 0
                   THEN /\ all_lights[n].samples = 16
                        /\ all_lights[n].deviance = built.deviance
                   ELSE IF built.deviance <= 0 \/ built.samples <= 1
                   THEN /\ all_lights[n].samples = 1
                        /\ all_lights[n].deviance = 0
                   ELSE /\ all_lights[n].samples = built.samples
                        /\ all_lights[n].deviance = built.deviance

\* a light with _deviance "2" and _samples "0" has 16 samples, and one with
\* _deviance "2" and _samples "-2" was reset
C28_Witness ==
    /\ Loaded
    /\ Len(all_lights) = 2
    /\ AsBuilt(all_lights[1]).samples = 0
    /\ AsBuilt(all_lights[1]).deviance = Fixed(2)
    /\ all_lights[1].samples = 16
    /\ all_lights[1].formula = LF.INVERSE2
    /\ all_lights[1].light = Rat(DEFAULTLIGHTLEVEL, 16)
    /\ AsBuilt(all_lights[2]).samples = -2
    /\ AsBuilt(all_lights[2]).deviance = Fixed(2)
    /\ all_lights[2].samples = 1
    /\ all_lights[2].deviance = 0

(***************************************************************************)
(* Claims on the intensity of jittered lights                              *)
(***************************************************************************)
RECURSIVE RatSum(_, _)
\* the sum of the intensities of the first n lights of a sequence
RatSum(lights, n) ==
    IF n = 0 THEN RatZero
    ELSE With(RatSum(lights, n - 1), LAMBDA acc : RatAdd(acc, lights[n].light))

\* the light built from dict e and its jitter duplicates
CopiesOf(e) == SelectSeq(all_lights, LAMBDA l : l.epairs = e)

\* the intensity of a light before the division: its light key, or the
\* default level for 0
UndividedLight(built) ==
    IF built.light = RatZero THEN Rat(DEFAULTLIGHTLEVEL, 1) ELSE built.light

\* C27: after JitterEntities, a light whose formula, once validated, is
\* INVERSE, INVERSE2, INFINITE, INVERSE2A, or LOCALMIN with addminlight
\* on, has with its jitter duplicates samples entries of intensity / samples
\* each, which sum to the intensity before the division; a light of any
\* other formula, an unknown one reset to LINEAR included, has samples
\* entries of the full intensity each.
C27_JitterKeepsBrightness ==
    pc = StepAfter("JitterEntities") =>
        \A n \in 1..final_lightcount :
            ~all_lights[n].generated =>
                \A copies \in {CopiesOf(all_lights[n].epairs)} :
                \A built \in {AsBuilt(all_lights[n])} :
                    /\ Len(copies) = all_lights[n].samples
                    /\ IF \/ built.formula \in {LF.INVERSE, LF.INVERSE2,
                                                LF.INFINITE, LF.INVERSE2A}
                          \/ built.formula = LF.LOCALMIN /\ cfg.addminlight
                       THEN /\ RatSum(copies, Len(copies))
                                 = UndividedLight(built)
                            /\ \A k \in 1..Len(copies) :
                                  copies[k].light
                                      = RatDivInt(UndividedLight(built),
                                                  Len(copies))
                       ELSE \A k \in 1..Len(copies) :
                               copies[k].light = UndividedLight(built)

\* a light of 100 with formula INVERSE2 stands three times with a third of
\* it, and a light with the unknown formula 6 three times with the default
\* level
C27_Witness ==
    /\ pc = StepAfter("JitterEntities")
    /\ Len(entdicts) = 3
    /\ Len(all_lights) = 6
    /\ AsBuilt(all_lights[1]).formula = LF.INVERSE2
    /\ AsBuilt(all_lights[1]).light = Rat(100, 1)
    /\ \A k \in {1, 3, 4} : all_lights[k].light = Rat(100, 3)
    /\ AsBuilt(all_lights[2]).formula = 6
    /\ \A k \in {2, 5, 6} : all_lights[k].light = Rat(DEFAULTLIGHTLEVEL, 1)

\* with addminlight on, a light with formula LOCALMIN and three samples
\* stands three times with a third of the default level
C27_LocalMinDivided ==
    /\ pc = StepAfter("JitterEntities")
    /\ cfg.addminlight
    /\ Len(all_lights) = 3
    /\ all_lights[1].formula = LF.LOCALMIN
    /\ \A k \in 1..3 : all_lights[k].light = Rat(DEFAULTLIGHTLEVEL, 3)

(***************************************************************************)
(* BSP_FindFaceAtPoint                                                     *)
(***************************************************************************)
CrossProduct(a, b) ==
    << a[2] * b[3] - a[3] * b[2],
       a[3] * b[1] - a[1] * b[3],
       a[1] * b[2] - a[2] * b[1] >>

\* the plane of the face, turned round for a face on the back side
Face_Plane(world, face) ==
    With(Lump(world.dplanes, face.planenum), LAMBDA result :
         IF face.side # 0
         THEN [result EXCEPT !.normal = VecScale(result.normal, -1),
                             !.dist = -result.dist]
         ELSE result)

Face_Normal(world, face) == Face_Plane(world, face).normal

\* one plane through every edge: normal = edge x face normal, dist =
\* normal . v0.  The edge vector is left at its length, which keeps the sign
\* of every distance taken from the plane.
Face_AllocInwardFacingEdgePlanes(world, face) ==
    With(FaceVerts(world, face), LAMBDA verts :
    With(Face_Plane(world, face).normal, LAMBDA facenormal :
         [i \in 1..face.numedges |->
            With(CrossProduct(VecSub(verts[(i % face.numedges) + 1], verts[i]),
                              facenormal),
                 LAMBDA normal :
                 [normal |-> normal, dist |-> DotProduct(normal, verts[i])])]))

EdgePlanes_PointInside_Always(edgeplanes, point) == TRUE

EdgePlanes_PointInside(edgeplanes, point) ==
    \A i \in 1..Len(edgeplanes) :
        DotProduct(edgeplanes[i].normal, point) - edgeplanes[i].dist >= 0

\* the null pointer, as a face number
NoFace == -1

\* the face faces the wanted way and the point lies within its edges
FaceMatches(world, facenum, point, wantedNormal) ==
    With(Lump(world.dfaces, facenum), LAMBDA face :
         /\ DotProduct(Face_Normal(world, face), wantedNormal) >= 0
         /\ EdgePlanes_PointInside(
                Face_AllocInwardFacingEdgePlanes(world, face), point))

RECURSIVE BSP_FindFaceAtPoint_r(_, _, _, _)
\* result: the number of the face found, or NoFace
BSP_FindFaceAtPoint_r(world, nodenum, point, wantedNormal) ==
    IF nodenum < 0 THEN NoFace
    ELSE
        With(Lump(world.dnodes, nodenum), LAMBDA node :
        With(Plane_Dist(point, Lump(world.dplanes, node.planenum)),
             LAMBDA dist :
        IF dist > ON_EPSILON THEN
            BSP_FindFaceAtPoint_r(world, node.children[1], point, wantedNormal)
        ELSE IF dist < -ON_EPSILON THEN
            BSP_FindFaceAtPoint_r(world, node.children[2], point, wantedNormal)
        ELSE
            With({ i \in 0..(node.numfaces - 1) :
                     FaceMatches(world, node.firstface + i, point,
                                 wantedNormal) },
                 LAMBDA matches :
            IF matches # {} THEN node.firstface + MinOf(matches)
            ELSE
                With(BSP_FindFaceAtPoint_r(world, node.children[1], point,
                                           wantedNormal),
                     LAMBDA side0Match :
                     IF side0Match # NoFace THEN side0Match
                     ELSE BSP_FindFaceAtPoint_r(world, node.children[2],
                                                point, wantedNormal)))))

BSP_FindFaceAtPoint(world, point, wantedNormal) ==
    BSP_FindFaceAtPoint_r(world, world.headnode, point, wantedNormal)

\* A wall x = 0 and a floor z = 0.  Node 0 (x = 0) lists the wall, 32 wide
\* and from z = 8 to z = 16, three times: face 0 looks back (-x), faces 1
\* and 2 look front (+x).  In front of it node 1 (y = 16) lists no face and
\* has node 3 (z = 0, floor face 3) before it; behind node 0 lies node 2
\* (z = 0, floor face 4).  Both floor faces span x = -16 .. 16.
WorldFind ==
    [ World1 EXCEPT
        !.dplanes = << [normal |-> <<1, 0, 0>>, dist |-> 0, type |-> PLANE.X],
                       [normal |-> <<0, 0, 1>>, dist |-> 0, type |-> PLANE.Z],
                       [normal |-> <<0, 1, 0>>, dist |-> Fixed(16),
                        type |-> PLANE.Y] >>,
        !.dnodes = << [planenum |-> 0, children |-> <<1, 2>>,
                       firstface |-> 0, numfaces |-> 3],
                      [planenum |-> 2, children |-> <<3, -1>>,
                       firstface |-> 0, numfaces |-> 0],
                      [planenum |-> 1, children |-> <<-2, -1>>,
                       firstface |-> 4, numfaces |-> 1],
                      [planenum |-> 1, children |-> <<-3, -1>>,
                       firstface |-> 3, numfaces |-> 1] >>,
        !.dfaces = << [planenum |-> 0, side |-> 1, firstedge |-> 0,
                       numedges |-> 4, texinfo |-> 0],
                      [planenum |-> 0, side |-> 0, firstedge |-> 4,
                       numedges |-> 4, texinfo |-> 0],
                      [planenum |-> 0, side |-> 0, firstedge |-> 4,
                       numedges |-> 4, texinfo |-> 0],
                      [planenum |-> 1, side |-> 0, firstedge |-> 8,
                       numedges |-> 4, texinfo |-> 0],
                      [planenum |-> 1, side |-> 0, firstedge |-> 8,
                       numedges |-> 4, texinfo |-> 0] >>,
        !.dsurfedges = <<1, 2, 3, 4, -4, -3, -2, -1, -8, -7, -6, -5>>,
        !.dedges = << <<0, 0>>, <<0, 1>>, <<1, 2>>, <<2, 3>>, <<3, 0>>,
                      <<4, 5>>, <<5, 6>>, <<6, 7>>, <<7, 4>> >>,
        !.dvertexes = << <<0, 0, 80>>, <<0, 320, 80>>, <<0, 320, 160>>,
                         <<0, 0, 160>>,
                         <<-160, 0, 0>>, <<160, 0, 0>>, <<160, 320, 0>>,
                         <<-160, 320, 0>> >> ]

\* the same map with the two subtrees of node 0 exchanged
WorldFindTurned ==
    [ WorldFind EXCEPT !.dnodes[1].children = <<2, 1>> ]

\* points about the wall plane, the plane y = 16, the floor plane and the
\* lower edge of the wall, in steps down to 0.1
FindPoints ==
    { <<x, y, z>> :
        x \in {-2, -1, 0, 1, 2, Fixed(8)},
        y \in {Fixed(8), 158, 159, 160, Fixed(24), Fixed(40)},
        z \in {-2, -1, 0, 1, 2, 79, 80, Fixed(12)} }

WantedNormals == { <<1, 0, 0>>, <<-1, 0, 0>>, <<0, 0, 1>>, <<0, 0, -1>> }

InitFind ==
    /\ ParseIdle /\ StyleIdle /\ PipeIdle /\ BounceIdle /\ SubdivIdle
    /\ q_bsp \in {WorldFind, WorldFindTurned}
    /\ q_call = [fn |-> "none", arg |-> 0, outcome |-> "none", value |-> 0]

\* one call on the map
Query_FindFaceAtPoint ==
    /\ q_call.fn = "none"
    /\ \E point \in FindPoints, wantedNormal \in WantedNormals :
         \E found \in {BSP_FindFaceAtPoint(q_bsp, point, wantedNormal)} :
            Called("BSP_FindFaceAtPoint",
                   [point |-> point, wantedNormal |-> wantedNormal],
                   IF found = NoFace THEN NullPtr ELSE Returned(found))

NextFind == Query_FindFaceAtPoint

SpecFind == InitFind /\ [][NextFind]_vars

(***************************************************************************)
(* Claims on BSP_FindFaceAtPoint                                           *)
(***************************************************************************)
RECURSIVE NodesBelow(_, _)
\* the nodes of the tree under a node number, itself included
NodesBelow(world, nodenum) ==
    IF nodenum < 0 THEN {}
    ELSE {nodenum}
         \cup NodesBelow(world, Lump(world.dnodes, nodenum).children[1])
         \cup NodesBelow(world, Lump(world.dnodes, nodenum).children[2])

FacesOn(node) == { node.firstface + i : i \in 0..(node.numfaces - 1) }

\* the face faces the wanted way and the point is at a distance of 0 or
\* more from the plane through each of its edges, taken with the face's
\* own normal
IsCandidate(world, facenum, point, wantedNormal) ==
    \A face \in {Lump(world.dfaces, facenum)} :
    \A verts \in {FaceVerts(world, face)} :
    \A n \in {IF face.side # 0
              THEN VecScale(Lump(world.dplanes, face.planenum).normal, -1)
              ELSE Lump(world.dplanes, face.planenum).normal} :
        /\ DotProduct(n, wantedNormal) >= 0
        /\ \A i \in 1..Len(verts) :
              DotProduct(CrossProduct(VecSub(verts[(i % Len(verts)) + 1],
                                            verts[i]), n),
                         VecSub(point, verts[i])) >= 0

RECURSIVE SearchOrder(_, _, _, _)
\* the candidates in the order of the search: on a node whose plane is
\* within 0.1 of the point the node's own, by face number, then those of
\* the front subtree, then those of the back subtree; on any other node
\* those of the subtree on the point's side
SearchOrder(world, nodenum, point, wantedNormal) ==
    IF nodenum < 0 THEN <<>>
    ELSE
        With(Lump(world.dnodes, nodenum), LAMBDA node :
        With(Plane_Dist(point, Lump(world.dplanes, node.planenum)),
             LAMBDA dist :
        IF Abs(dist) > ON_EPSILON THEN
            SearchOrder(world,
                        IF dist > 0 THEN node.children[1] ELSE node.children[2],
                        point, wantedNormal)
        ELSE
            SelectSeq([i \in 1..node.numfaces |-> node.firstface + i - 1],
                      LAMBDA f : IsCandidate(world, f, point, wantedNormal))
            \o SearchOrder(world, node.children[1], point, wantedNormal)
            \o SearchOrder(world, node.children[2], point, wantedNormal)))

RECURSIVE StraddledNodes(_, _, _, _)
\* the nodes the search comes to whose plane is within 0.1 of the point,
\* each with its depth under the head node
StraddledNodes(world, nodenum, point, depth) ==
    IF nodenum < 0 THEN {}
    ELSE
        With(Lump(world.dnodes, nodenum), LAMBDA node :
        With(Plane_Dist(point, Lump(world.dplanes, node.planenum)),
             LAMBDA dist :
        IF Abs(dist) > ON_EPSILON THEN
            StraddledNodes(world,
                IF dist > 0 THEN node.children[1] ELSE node.children[2],
                point, depth + 1)
        ELSE
            {[node |-> nodenum, depth |-> depth]}
            \cup StraddledNodes(world, node.children[1], point, depth + 1)
            \cup StraddledNodes(world, node.children[2], point, depth + 1)))

\* the candidates listed on a node
CandidatesOn(world, nodenum, point, wantedNormal) ==
    { f \in FacesOn(Lump(world.dnodes, nodenum)) :
        IsCandidate(world, f, point, wantedNormal) }

\* C29 as stated: a face BSP_FindFaceAtPoint returns is listed on a node
\* under the head node whose plane is within 0.1 of the point, faces the
\* wanted way and has the point within its edge planes; among the
\* candidates the face on the shallowest such node wins, and on that node
\* the lowest face number.  The result is null when there is no candidate.
C29_ShallowestNodeWins ==
    q_call.fn = "BSP_FindFaceAtPoint" =>
        \A holders \in
              {{ s \in StraddledNodes(q_bsp, q_bsp.headnode,
                                     q_call.arg.point, 0) :
                   CandidatesOn(q_bsp, s.node, q_call.arg.point,
                                q_call.arg.wantedNormal) # {} }} :
            IF q_call.outcome = "null" THEN holders = {}
            ELSE
                \E s \in holders :
                    /\ q_call.value =
                          MinOf(CandidatesOn(q_bsp, s.node, q_call.arg.point,
                                             q_call.arg.wantedNormal))
                    /\ \A t \in holders : s.depth <= t.depth

\* C29 amended: a face BSP_FindFaceAtPoint returns is listed on a node
\* under the head node whose plane is within 0.1 of the point, its normal
\* has a dot product of 0 or more with the wanted normal, and the point is
\* at a distance of 0 or more from every inward edge plane of the face.  It
\* is the first candidate in the order of the search: the faces of a node
\* within 0.1 come before those of the nodes under it, by face number, and
\* the whole front subtree comes before the back subtree, so that a face
\* deep in the front subtree wins over one on a shallower node of the back
\* subtree.  The result is null when the search meets no candidate.
C29_FirstFaceAtPoint ==
    q_call.fn = "BSP_FindFaceAtPoint" =>
        \A order \in {SearchOrder(q_bsp, q_bsp.headnode, q_call.arg.point,
                                  q_call.arg.wantedNormal)} :
            IF q_call.outcome = "null" THEN order = <<>>
            ELSE
                /\ q_call.outcome = "value"
                /\ order # <<>>
                /\ q_call.value = order[1]
                /\ IsCandidate(q_bsp, q_call.value, q_call.arg.point,
                               q_call.arg.wantedNormal)
                /\ \E nodenum \in NodesBelow(q_bsp, q_bsp.headnode) :
                      /\ q_call.value \in FacesOn(Lump(q_bsp.dnodes, nodenum))
                      /\ Abs(Plane_Dist(q_call.arg.point,
                                Lump(q_bsp.dplanes,
                                     Lump(q_bsp.dnodes, nodenum).planenum)))
                            <= ON_EPSILON

\* at (0, 16, 0) with the normal +z wanted, the wall faces are no
\* candidates, node 1 lists none, and face 3, two nodes down the front
\* subtree, is returned before face 4 of the back child of node 0
C29_Witness ==
    /\ q_bsp = WorldFind
    /\ q_call.fn = "BSP_FindFaceAtPoint"
    /\ q_call.arg = [point |-> <<0, 160, 0>>, wantedNormal |-> <<0, 0, 1>>]
    /\ q_call.outcome = "value"
    /\ q_call.value = 3
    /\ SearchOrder(q_bsp, q_bsp.headnode, q_call.arg.point,
                   q_call.arg.wantedNormal) = <<3, 4>>

\* on the wall with +x wanted, face 0 looks the other way and face 1 is
\* returned before face 2
C29_LowestFaceNumber ==
    /\ q_call.fn = "BSP_FindFaceAtPoint"
    /\ q_call.arg = [point |-> <<1, 160, 80>>, wantedNormal |-> <<1, 0, 0>>]
    /\ q_call.value = 1
    /\ q_call.outcome = "value"

\* well in front of the wall the search goes down one side only and ends
\* in leaves
C29_NullInLeaves ==
    /\ q_call.fn = "BSP_FindFaceAtPoint"
    /\ q_call.arg.point = <<Fixed(8), Fixed(8), 0>>
    /\ q_call.outcome = "null"

\* the front subtree gives nothing and the face of the back subtree is
\* returned
C29_BackAfterFront ==
    /\ q_bsp = WorldFind
    /\ q_call.fn = "BSP_FindFaceAtPoint"
    /\ q_call.arg = [point |-> <<0, Fixed(8), 0>>, wantedNormal |-> <<0, 0, 1>>]
    /\ q_call.outcome = "value"
    /\ q_call.value = 4

=============================================================================
